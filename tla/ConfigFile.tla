------------------------------ MODULE ConfigFile ------------------------------
(***************************************************************************)
(* component.json as files (util.py atomic_write_json, config.py).  A save *)
(* opens the one temporary name component.json.tmp, truncating what is     *)
(* there, writes and syncs through that handle, and renames the name; a    *)
(* load opens the file and reads through its handle.  Names lead to        *)
(* inodes, and a handle keeps its inode when the name has moved on.        *)
(***************************************************************************)
EXTENDS Naturals, FiniteSets

CONSTANTS
  Saver, Reader,
  Value,        \* what is saved
  Inode,        \* bound: a new file takes one that no name and no handle leads to
  Absent,       \* no such file, no handle
  Overlapping,  \* TRUE: a save may begin before another has ended
  MaxCrashes    \* bound: savers that die

ASSUME FreshAssumption  == Absent \notin Inode \cup Value \cup {"empty", "torn"}
ASSUME ValueAssumption  == Value \cap {"empty", "torn"} = {}
ASSUME RegimeAssumption == Overlapping \in BOOLEAN

VARIABLES
  content,  \* of each inode: "empty", "torn" or a value
  temp,     \* the inode of component.json.tmp
  path,     \* the inode of component.json
  save,     \* of each saver: where it is, its handle and its value
  reading,  \* the handle of each reader
  crashed   \* the savers that have died

vars == <<content, temp, path, save, reading, crashed>>

Rest == [pc |-> "rest", handle |-> Absent, value |-> Absent]

At(s, l) == save[s].pc = l
Goto(s, l) == save' = [save EXCEPT ![s].pc = l]

InUse == {temp, path} \cup {save[s].handle : s \in Saver} \cup {reading[r] : r \in Reader}

-----------------------------------------------------------------------------
\* Opens what a dead save has left without truncating it.
OpenedAsItIs(i) == content

Opened(i) == [content EXCEPT ![i] = "empty"]

OpenTemp(s, v) ==
  /\ At(s, "rest") /\ s \notin crashed
  /\ Overlapping \/ \A o \in Saver : At(o, "rest")
  /\ \E i \in IF temp # Absent THEN {temp} ELSE Inode \ InUse :
       /\ temp' = i
       /\ content' = IF temp # Absent THEN Opened(i) ELSE [content EXCEPT ![i] = "empty"]
       /\ save' = [save EXCEPT ![s] = [pc |-> "write", handle |-> i, value |-> v]]
  /\ UNCHANGED <<path, reading, crashed>>

\* Over something longer, the tail of it stays.
Write(s) ==
  LET i == save[s].handle IN
  /\ At(s, "write")
  /\ \E c \in IF content[i] = "empty" THEN {save[s].value} ELSE {save[s].value, "torn"} :
       content' = [content EXCEPT ![i] = c]
  /\ Goto(s, "replace")
  /\ UNCHANGED <<temp, path, reading, crashed>>

\* os.replace, of the name: whoever opened the file last has it renamed, and
\* the other is told that it does not exist.
Replace(s) ==
  /\ At(s, "replace")
  /\ path' = IF temp # Absent THEN temp ELSE path
  /\ temp' = Absent
  /\ save' = [save EXCEPT ![s] = Rest]
  /\ UNCHANGED <<content, reading, crashed>>

\* A saver dies, perhaps half way through its write.
Crash(s) ==
  /\ ~At(s, "rest") /\ Cardinality(crashed) < MaxCrashes
  /\ crashed' = crashed \cup {s}
  /\ \/ UNCHANGED content
     \/ At(s, "write") /\ content' = [content EXCEPT ![save[s].handle] = "torn"]
  /\ save' = [save EXCEPT ![s] = Rest]
  /\ UNCHANGED <<temp, path, reading>>

\* load_config: the name is looked up once, the handle is read after.
OpenToRead(r) ==
  /\ reading[r] = Absent /\ path # Absent
  /\ reading' = [reading EXCEPT ![r] = path]
  /\ UNCHANGED <<content, temp, path, save, crashed>>

Close(r) ==
  /\ reading[r] # Absent
  /\ reading' = [reading EXCEPT ![r] = Absent]
  /\ UNCHANGED <<content, temp, path, save, crashed>>

-----------------------------------------------------------------------------
Init ==
  /\ content = [i \in Inode |-> "empty"]
  /\ temp = Absent /\ path = Absent
  /\ save = [s \in Saver |-> Rest]
  /\ reading = [r \in Reader |-> Absent]
  /\ crashed = {}

Next ==
  \/ \E s \in Saver : (\E v \in Value : OpenTemp(s, v)) \/ Write(s) \/ Replace(s) \/ Crash(s)
  \/ \E r \in Reader : OpenToRead(r) \/ Close(r)

Spec == Init /\ [][Next]_vars

-----------------------------------------------------------------------------
\* Names and handles lead to inodes, and the two names never to the same one.
TypeOK ==
  /\ content \in [Inode -> Value \cup {"empty", "torn"}]
  /\ temp \in Inode \cup {Absent} /\ path \in Inode \cup {Absent}
  /\ temp = path => temp = Absent
  /\ save \in [Saver -> [pc : {"rest", "write", "replace"}, handle : Inode \cup {Absent},
                         value : Value \cup {Absent}]]
  /\ reading \in [Reader -> Inode \cup {Absent}]
  /\ crashed \subseteq Saver

ContentOf(i) == IF i = Absent THEN Absent ELSE content[i]

Register == INSTANCE ConfigRegister WITH
  value <- ContentOf(path),
  held  <- [r \in Reader |-> ContentOf(reading[r])]

\* Saves that do not overlap replace the configuration as one, whatever a save
\* that died has left behind, and a load under way is not disturbed by them.
ImplementsRegister == Register!Spec

\* The name of atomic_write_json: whoever loads the configuration reads one
\* that was saved.
LoadsWhatWasSaved == \A r \in Reader : ContentOf(reading[r]) \in Value \cup {Absent}
=============================================================================
