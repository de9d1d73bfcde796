-------------------------- MODULE ConfigFileProofs --------------------------
(***************************************************************************)
(* component.json as a register, for every number of savers, readers,      *)
(* values, files and crashes, while saves do not overlap.  The inode under *)
(* the temporary name is then nobody's but the one saver's: truncating and *)
(* writing it is seen by no load, and the rename publishes it whole.       *)
(***************************************************************************)
EXTENDS ConfigFile, TLAPS

OneSaver == \A s, o \in Saver : ~At(s, "rest") /\ ~At(o, "rest") => s = o

\* The saver under way writes through the temporary name's inode, and has
\* written the whole value when it comes to rename it.
SaverHasTemp ==
  \A s \in Saver :
    /\ ~At(s, "rest") => save[s].handle = temp /\ temp # Absent /\ save[s].value \in Value
    /\ At(s, "write") => content[temp] = "empty"
    /\ At(s, "replace") => content[temp] = save[s].value

\* No load has the temporary file open.
TempUnread == temp # Absent => \A r \in Reader : reading[r] # temp

FileInv == TypeOK /\ OneSaver /\ SaverHasTemp /\ TempUnread

\* A step that publishes nothing: the abstract register stutters.
Unseen == /\ path' = path /\ reading' = reading
          /\ \A i \in Inode : i = path \/ (\E r \in Reader : i = reading[r]) => content'[i] = content[i]

\* What a step is for the register.
Maps == [Register!Next]_(Register!vars)

USE FreshAssumption, ValueAssumption

LEMMA InitFileInv == Init => FileInv
BY DEF Init, FileInv, TypeOK, OneSaver, SaverHasTemp, TempUnread, At, Rest

LEMMA UnseenStutters == ASSUME TypeOK, Unseen PROVE Maps
<1>1. ContentOf(path)' = ContentOf(path)
  BY DEF TypeOK, Unseen, ContentOf
<1>2. \A r \in Reader : ContentOf(reading[r])' = ContentOf(reading[r])
  BY DEF TypeOK, Unseen, ContentOf
<1> QED
  BY <1>1, <1>2 DEF Maps, Register!vars

\* Opening, writing and dying are seen by nobody.
LEMMA OpenStep ==
  ASSUME FileInv, ~Overlapping, NEW s \in Saver, NEW v \in Value, OpenTemp(s, v)
  PROVE  FileInv' /\ Maps
<1> USE DEF FileInv, TypeOK, OneSaver, SaverHasTemp, TempUnread, At
<1>1. PICK i \in IF temp # Absent THEN {temp} ELSE Inode \ InUse :
        /\ temp' = i
        /\ content' = IF temp # Absent THEN Opened(i) ELSE [content EXCEPT ![i] = "empty"]
        /\ save' = [save EXCEPT ![s] = [pc |-> "write", handle |-> i, value |-> v]]
  BY DEF OpenTemp
<1>2. /\ i \in Inode /\ i # path /\ \A r \in Reader : reading[r] # i
      /\ content' = [content EXCEPT ![i] = "empty"]
      /\ path' = path /\ reading' = reading /\ crashed' = crashed
  BY <1>1 DEF InUse, Opened, OpenTemp
<1>3. \A o \in Saver : save[o].pc = "rest"
  BY DEF OpenTemp
<1>4. \A o \in Saver \ {s} : save'[o] = save[o]
  BY <1>1
<1>5. save'[s] = [pc |-> "write", handle |-> i, value |-> v]
  BY <1>1
<1>6. TypeOK'
  BY <1>1, <1>2
<1>7. OneSaver' /\ SaverHasTemp' /\ TempUnread'
  BY <1>1, <1>2, <1>3, <1>4, <1>5
<1>8. Unseen
  BY <1>2 DEF Unseen
<1> QED
  BY <1>6, <1>7, <1>8, UnseenStutters

LEMMA WriteStep ==
  ASSUME FileInv, NEW s \in Saver, Write(s) \/ Crash(s)
  PROVE  FileInv' /\ Maps
<1> USE DEF FileInv, TypeOK, OneSaver, SaverHasTemp, TempUnread, At
<1>1. /\ save[s].handle = temp /\ temp \in Inode /\ temp # path
      /\ \A r \in Reader : reading[r] # temp
      /\ save[s].value \in Value /\ save[s].pc # "rest"
  BY DEF Write, Crash
<1>2. \A o \in Saver \ {s} : save[o].pc = "rest" /\ save'[o] = save[o]
  BY <1>1 DEF Write, Crash, Goto
<1>3. /\ path' = path /\ reading' = reading /\ temp' = temp
      /\ \A i \in Inode \ {temp} : content'[i] = content[i]
  BY <1>1 DEF Write, Crash
<1>4. Maps
  <2>1. Unseen
    BY <1>1, <1>3 DEF Unseen
  <2> QED
    BY <2>1, UnseenStutters
<1>5. CASE Write(s)
  <2>1. content' = [content EXCEPT ![temp] = save[s].value]
    BY <1>1, <1>5 DEF Write
  <2>2. save' = [save EXCEPT ![s].pc = "replace"] /\ crashed' = crashed
    BY <1>5 DEF Write, Goto
  <2>3. save'[s].pc = "replace" /\ save'[s].handle = temp /\ save'[s].value = save[s].value
    BY <1>1, <2>2
  <2>4. content'[temp] = save[s].value
    BY <1>1, <2>1
  <2>5. TypeOK'
    BY <1>1, <1>3, <2>1, <2>2
  <2>6. OneSaver' /\ TempUnread'
    BY <1>1, <1>2, <1>3
  <2>7. SaverHasTemp'
    BY <1>1, <1>2, <1>3, <2>3, <2>4
  <2> QED
    BY <1>4, <2>5, <2>6, <2>7
<1>6. CASE Crash(s)
  <2>1. save' = [save EXCEPT ![s] = Rest] /\ crashed' = crashed \cup {s}
    BY <1>6 DEF Crash
  <2>2. content' \in [Inode -> Value \cup {"empty", "torn"}]
    BY <1>1, <1>6 DEF Crash
  <2>3. \A o \in Saver : save'[o].pc = "rest"
    BY <1>2, <2>1 DEF Rest
  <2>4. TypeOK'
    BY <1>3, <2>1, <2>2 DEF Rest
  <2> QED
    BY <1>1, <1>3, <1>4, <2>3, <2>4
<1> QED
  BY <1>5, <1>6

\* The rename saves the value, whole.
LEMMA ReplaceStep ==
  ASSUME FileInv, NEW s \in Saver, Replace(s)
  PROVE  FileInv' /\ Maps
<1> USE DEF FileInv, TypeOK, OneSaver, SaverHasTemp, TempUnread, At
<1>1. /\ temp \in Inode /\ content[temp] = save[s].value /\ save[s].value \in Value
      /\ \A o \in Saver \ {s} : save[o].pc = "rest"
  BY DEF Replace
<1>2. /\ path' = temp /\ temp' = Absent /\ save' = [save EXCEPT ![s] = Rest]
      /\ content' = content /\ reading' = reading /\ crashed' = crashed
  BY <1>1 DEF Replace
<1>3. FileInv'
  BY <1>1, <1>2 DEF Rest
<1>4. ContentOf(path)' = save[s].value
  BY <1>1, <1>2 DEF ContentOf
<1>5. \A r \in Reader : ContentOf(reading[r])' = ContentOf(reading[r])
  BY <1>2 DEF ContentOf
<1>6. Register!Save(save[s].value)
  BY <1>4, <1>5 DEF Register!Save
<1> QED
  BY <1>1, <1>3, <1>6 DEF Maps, Register!Next

\* A load fetches the value, or lets go of it.
LEMMA ReadStep ==
  ASSUME FileInv, NEW r \in Reader, OpenToRead(r) \/ Close(r)
  PROVE  FileInv' /\ Maps
<1> USE DEF FileInv, TypeOK, OneSaver, SaverHasTemp, TempUnread, At
<1>1. CASE OpenToRead(r)
  <2>1. /\ reading' = [reading EXCEPT ![r] = path] /\ path \in Inode
        /\ UNCHANGED <<content, temp, path, save, crashed>>
    BY <1>1 DEF OpenToRead
  <2>2. FileInv'
    BY <2>1
  <2>3. ContentOf(path)' = ContentOf(path)
    BY <2>1 DEF ContentOf
  <2>4. \A q \in Reader : ContentOf(reading[q])' =
                            IF q = r THEN ContentOf(path) ELSE ContentOf(reading[q])
    BY <2>1 DEF ContentOf
  <2>5. Register!Fetch(r)
    BY <2>3, <2>4 DEF Register!Fetch
  <2> QED
    BY <2>2, <2>5 DEF Maps, Register!Next
<1>2. CASE Close(r)
  <2>1. /\ reading' = [reading EXCEPT ![r] = Absent]
        /\ UNCHANGED <<content, temp, path, save, crashed>>
    BY <1>2 DEF Close
  <2>2. FileInv'
    BY <2>1
  <2>3. ContentOf(path)' = ContentOf(path)
    BY <2>1 DEF ContentOf
  <2>4. \A q \in Reader : ContentOf(reading[q])' = IF q = r THEN Absent ELSE ContentOf(reading[q])
    BY <2>1 DEF ContentOf
  <2>5. Register!Drop(r)
    BY <2>3, <2>4 DEF Register!Drop
  <2> QED
    BY <2>2, <2>5 DEF Maps, Register!Next
<1> QED
  BY <1>1, <1>2

LEMMA FileStep == ASSUME ~Overlapping PROVE FileInv /\ [Next]_vars => FileInv' /\ Maps
<1> SUFFICES ASSUME FileInv, [Next]_vars
             PROVE  FileInv' /\ Maps
  OBVIOUS
<1>1. CASE Next
  BY <1>1, OpenStep, WriteStep, ReplaceStep, ReadStep DEF Next
<1>2. CASE UNCHANGED vars
  <2>1. FileInv'
    BY <1>2 DEF vars, FileInv, TypeOK, OneSaver, SaverHasTemp, TempUnread, At
  <2>2. Unseen
    BY <1>2 DEF vars, Unseen
  <2> QED
    BY <2>1, <2>2, UnseenStutters DEF FileInv
<1> QED
  BY <1>1, <1>2

\* Names and handles keep their shape, and the two names their own files.
THEOREM FilesTypeCorrect == ASSUME ~Overlapping PROVE Spec => []TypeOK
<1>1. FileInv => TypeOK
  BY DEF FileInv
<1> QED
  BY <1>1, InitFileInv, FileStep, PTL DEF Spec

\* Saves that do not overlap make component.json an atomic register, whatever
\* savers die and whatever they leave behind.
THEOREM RegisterImplemented == ASSUME ~Overlapping PROVE Spec => ImplementsRegister
<1>1. Init => Register!Init
  BY DEF Init, Register!Init, ContentOf
<1>2. FileInv /\ [Next]_vars => [Register!Next]_(Register!vars)
  BY FileStep DEF Maps
<1>3. FileInv /\ [Next]_vars => FileInv'
  BY FileStep
<1> QED
  BY <1>1, <1>2, <1>3, InitFileInv, PTL DEF Spec, ImplementsRegister, Register!Spec
=============================================================================
