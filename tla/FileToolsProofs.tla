--------------------------- MODULE FileToolsProofs --------------------------
(***************************************************************************)
(* write_file implements the atomic file it promises to be whenever no two *)
(* writes of the path meet, for any number of agents with a guard each,    *)
(* through failures and crashes at any step.                               *)
(***************************************************************************)
EXTENDS FileTools, FiniteSetTheorems, TLAPS

Steps == {"idle", "write.open", "write.fill", "write.rename", "read", "command"}

FileTypeOK ==
  /\ target \in Inodes \cup {NoInode} /\ temp \in Inodes \cup {NoInode}
  /\ data = [i \in Inodes |-> data[i]]
  /\ doing \in [Agents -> Steps]
  /\ handle \in [Agents -> Inodes \cup {NoInode}]

(* Writes that met make up all the writes there are, or none has.  One that *)
(* is alone is the only one; from the moment it opened the temporary file, *)
(* that name stands for the inode it has open, which is not the target's;  *)
(* once filled it holds the writer's text.                                 *)
WriterInv ==
  /\ temp # NoInode => temp # target
  /\ shared = {} \/ shared = Undecided
  /\ shared = {} =>
       /\ \A a, b \in Undecided : a = b
       /\ \A a \in Agents : doing[a] = "write.fill" =>
            temp # NoInode /\ handle[a] = temp /\ data[temp] = Empty
       /\ \A a \in Agents : doing[a] = "write.rename" =>
            temp # NoInode /\ handle[a] = temp /\ data[temp] = a

LEMMA FileInit == FileToolsAssumption /\ ToolsInit => FileTypeOK /\ WriterInv
BY SMT DEF FileToolsAssumption, ToolsInit, FileTypeOK, WriterInv, Undecided, Steps

(* There is always an inode to open, since those in use are the target's   *)
(* and at most one for each agent.                                         *)
LEMMA FreeInode ==
  ASSUME FileToolsAssumption, FileTypeOK, temp = NoInode
  PROVE  \E i \in Inodes : i \notin InUse
<1> DEFINE Open == {handle[a] : a \in Agents}
<1>1. handle \in Surjection(Agents, Open)
  BY DEF Surjection, FileTypeOK
<1>2. IsFiniteSet(Open) /\ Cardinality(Open) <= Cardinality(Agents)
  BY <1>1, FS_Surjection DEF FileToolsAssumption
<1>3. IsFiniteSet(Open \cup {target})
      /\ Cardinality(Open \cup {target}) \in {Cardinality(Open), Cardinality(Open) + 1}
  BY <1>2, FS_AddElement, Zenon
<1>4. Cardinality(Open) \in Nat /\ Cardinality(Agents) \in Nat /\ Cardinality(Inodes) \in Nat
  BY <1>2, FS_CardinalityType DEF FileToolsAssumption
<1>5. Cardinality(Open \cup {target}) < Cardinality(Inodes)
  BY <1>2, <1>3, <1>4, SMT DEF FileToolsAssumption
<1>6. ~(Inodes \subseteq Open \cup {target})
  <2> SUFFICES ASSUME Inodes \subseteq Open \cup {target} PROVE FALSE
    OBVIOUS
  <2>1. Cardinality(Inodes) <= Cardinality(Open \cup {target})
    BY <1>3, FS_Subset
  <2> QED
    BY <1>3, <1>4, <1>5, <2>1, SMT
<1>7. InUse \subseteq Open \cup {target}
  BY DEF InUse
<1> QED
  BY <1>6, <1>7

(* What OpenTemp opens: the temporary file there is, or a new one.         *)
LEMMA OpensAnotherInode ==
  ASSUME FileToolsAssumption, FileTypeOK, WriterInv, NEW a \in Agents, OpenTemp(a)
  PROVE  \E i \in Inodes :
           /\ i # target /\ (i = temp \/ i \notin InUse)
           /\ temp' = i /\ data' = [data EXCEPT ![i] = Empty]
           /\ handle' = [handle EXCEPT ![a] = i]
<1> DEFINE i == IF temp # NoInode THEN temp ELSE CHOOSE j \in Inodes : j \notin InUse
<1>1. CASE temp # NoInode
  BY <1>1, Zenon DEF OpenTemp, FileTypeOK, WriterInv
<1>2. CASE temp = NoInode
  <2>1. i \in Inodes /\ i \notin InUse
    BY <1>2, FreeInode
  <2>2. i # target
    BY <2>1 DEF InUse, FileToolsAssumption
  <2> QED
    BY <1>2, <2>1, <2>2, Zenon DEF OpenTemp
<1> QED
  BY <1>1, <1>2

-----------------------------------------------------------------------------
(* The actions, grouped by what they do to the writers.                    *)

GivesUp(a) == WriteFails(a) \/ FillFails(a) \/ RenameFails(a)

Other(a) == \/ OpenTarget(a) \/ ReadTarget(a) \/ StartCommand(a)
            \/ ChildSpawns(a) \/ ProcessExits(a) \/ CommandReturns(a) \/ CommandAborted(a)

LEMMA OtherFrame ==
  ASSUME FileTypeOK, NEW a \in Agents, Other(a)
  PROVE  /\ UNCHANGED <<target, temp, data, shared>>
         /\ doing' \in [Agents -> Steps] /\ handle' \in [Agents -> Inodes \cup {NoInode}]
         /\ Undecided' = Undecided
         /\ \A b \in Undecided : doing'[b] = doing[b] /\ handle'[b] = handle[b]
<1> USE DEF Goto, names, Undecided, FileTypeOK, Steps
<1>1. CASE OpenTarget(a)
  BY <1>1, SMT DEF OpenTarget
<1>2. CASE ReadTarget(a)
  BY <1>2, SMT DEF ReadTarget
<1>3. CASE StartCommand(a)
  BY <1>3, SMT DEF StartCommand
<1>4. CASE ChildSpawns(a) \/ ProcessExits(a)
  BY <1>4, SMT DEF ChildSpawns, ProcessExits
<1>5. CASE CommandReturns(a)
  BY <1>5, SMT DEF CommandReturns
<1>6. CASE CommandAborted(a)
  BY <1>6, SMT DEF CommandAborted
<1> QED
  BY <1>1, <1>2, <1>3, <1>4, <1>5, <1>6 DEF Other

(* A writer fills an inode that nobody else wrote to, and not the target.  *)
LEMMA FillsItsOwn ==
  ASSUME FileTypeOK, WriterInv, shared = {}, NEW a \in Agents, FillTemp(a)
  PROVE  data' = [data EXCEPT ![handle[a]] = a]
<1>1. data[handle[a]] = Empty
  BY SMT DEF FillTemp, WriterInv
<1>2. PICK t \in {a} \cup IF data[handle[a]] = Empty THEN {} ELSE {Mixed} :
        data' = [data EXCEPT ![handle[a]] = t]
  BY DEF FillTemp
<1>3. t = a
  BY <1>1, <1>2
<1> QED
  BY <1>2, <1>3

LEMMA WriterNext ==
  FileToolsAssumption /\ FileTypeOK /\ WriterInv /\ [ToolsNext]_toolVars
    => FileTypeOK' /\ WriterInv'
<1> SUFFICES ASSUME FileToolsAssumption, FileTypeOK, WriterInv, [ToolsNext]_toolVars
             PROVE  FileTypeOK' /\ WriterInv'
  OBVIOUS
<1> USE DEF FileTypeOK, WriterInv, Undecided, Goto, Steps
<1>1. ASSUME NEW a \in Agents, BeginWrite(a) PROVE FileTypeOK' /\ WriterInv'
  <2>1. /\ UNCHANGED <<target, temp, data, handle>> /\ a \notin Undecided
        /\ doing' = [doing EXCEPT ![a] = "write.open"]
        /\ shared' = IF Undecided = {} THEN {} ELSE Undecided \cup {a}
    BY <1>1, SMT DEF BeginWrite, names
  <2>2. Undecided' = Undecided \cup {a}
    BY <2>1, SMT
  <2>3. CASE Undecided = {}
    BY <2>1, <2>2, <2>3, SMT
  <2>4. CASE Undecided # {}
    <3>1. shared' = Undecided' /\ shared' # {}
      BY <2>1, <2>2, <2>4
    <3> QED
      BY <2>1, <3>1, SMT
  <2> QED
    BY <2>3, <2>4
<1>2. ASSUME NEW a \in Agents, OpenTemp(a) PROVE FileTypeOK' /\ WriterInv'
  <2>1. PICK i \in Inodes : /\ i # target
                            /\ temp' = i /\ data' = [data EXCEPT ![i] = Empty]
                            /\ handle' = [handle EXCEPT ![a] = i]
    BY <1>2, OpensAnotherInode
  <2>2. doing[a] = "write.open" /\ doing' = [doing EXCEPT ![a] = "write.fill"]
        /\ target' = target /\ locks' = locks
    BY <1>2 DEF OpenTemp
  <2>3. Undecided' = Undecided /\ shared' = shared /\ temp' # target' /\ FileTypeOK'
    <3>1. shared' = shared
      BY <1>2 DEF OpenTemp
    <3>2. Undecided' = Undecided
      BY <2>2, SMT
    <3>3. FileTypeOK'
      BY <2>1, <2>2, SMT
    <3> QED
      BY <2>1, <2>2, <3>1, <3>2, <3>3
  <2>4. CASE shared = {}
    BY <2>1, <2>2, <2>3, <2>4, SMT DEF FileToolsAssumption
  <2>5. CASE shared # {}
    BY <2>3, <2>5
  <2> QED
    BY <2>4, <2>5
<1>3. ASSUME NEW a \in Agents, FillTemp(a) PROVE FileTypeOK' /\ WriterInv'
  <2>1. CASE shared = {}
    <3>1. data' = [data EXCEPT ![handle[a]] = a]
      BY <1>3, <2>1, FillsItsOwn
    <3> QED
      BY <1>3, <2>1, <3>1, SMT DEF FillTemp
  <2>2. CASE shared # {}
    <3>1. /\ UNCHANGED <<target, temp, handle, shared>> /\ data' = [i \in Inodes |-> data'[i]]
          /\ doing' = [doing EXCEPT ![a] = "write.rename"] /\ a \in Undecided
      BY <1>3, SMT DEF FillTemp
    <3>2. Undecided' = Undecided
      BY <3>1, SMT
    <3> QED
      BY <2>2, <3>1, <3>2, SMT
  <2> QED
    BY <2>1, <2>2
<1>4. ASSUME NEW a \in Agents, GivesUp(a) PROVE FileTypeOK' /\ WriterInv'
  BY <1>4, SMT DEF GivesUp, WriteFails, FillFails, RenameFails, EndWrite, names
<1>5. ASSUME NEW a \in Agents, RenameTemp(a) PROVE FileTypeOK' /\ WriterInv'
  BY <1>5, SMT DEF RenameTemp, EndWrite
<1>6. ASSUME NEW a \in Agents, Other(a) PROVE FileTypeOK' /\ WriterInv'
  BY <1>6, OtherFrame, SMT
<1>7. CASE Crash
  BY <1>7, SMT DEF Crash, names
<1>8. CASE UNCHANGED toolVars
  BY <1>8, SMT DEF toolVars
<1> QED
  BY <1>1, <1>2, <1>3, <1>4, <1>5, <1>6, <1>7, <1>8 DEF ToolsNext, AgentStep, GivesUp, Other

(* A write that has the lock is asked for, the rename replaces the file,   *)
(* and every failure gives up; the steps in between do not touch the file. *)
LEMMA StepRefines ==
  FileToolsAssumption /\ FileTypeOK /\ WriterInv /\ [ToolsNext]_toolVars
    => [shared # {} \/ File!Next]_<<Text(target), Undecided>>
<1> SUFFICES ASSUME FileToolsAssumption, FileTypeOK, WriterInv, shared = {}, [ToolsNext]_toolVars
             PROVE  File!Next \/ UNCHANGED <<Text(target), Undecided>>
  OBVIOUS
<1> USE DEF FileTypeOK, WriterInv, Undecided, Goto, Steps, Text
<1>1. ASSUME NEW a \in Agents, BeginWrite(a) PROVE File!Next
  <2>1. a \notin Undecided /\ Undecided' = Undecided \cup {a} /\ Text(target)' = Text(target)
    BY <1>1, SMT DEF BeginWrite, names
  <2> QED
    BY <2>1 DEF File!Next, File!Ask
<1>2. ASSUME NEW a \in Agents, OpenTemp(a) PROVE UNCHANGED <<Text(target), Undecided>>
  <2>1. PICK i \in Inodes : i # target /\ data' = [data EXCEPT ![i] = Empty]
    BY <1>2, OpensAnotherInode
  <2>2. doing[a] = "write.open" /\ doing' = [doing EXCEPT ![a] = "write.fill"] /\ target' = target
    BY <1>2 DEF OpenTemp
  <2> QED
    BY <2>1, <2>2, SMT
<1>3. ASSUME NEW a \in Agents, FillTemp(a) PROVE UNCHANGED <<Text(target), Undecided>>
  <2>1. handle[a] # target /\ target' = target
    BY <1>3, SMT DEF FillTemp
  <2> QED
    BY <1>3, <2>1, SMT DEF FillTemp
<1>4. ASSUME NEW a \in Agents, GivesUp(a) PROVE File!Next
  <2>1. a \in Undecided /\ Undecided' = Undecided \ {a}
    BY <1>4, SMT DEF GivesUp, WriteFails, FillFails, RenameFails, EndWrite
  <2>2. ASSUME FillFails(a) PROVE Text(target)' = Text(target)
    <3>1. handle[a] # target /\ target' = target /\ data' = [data EXCEPT ![handle[a]] = Mixed]
      BY <2>2, SMT DEF FillFails
    <3> QED
      BY <3>1, SMT
  <2>3. ASSUME WriteFails(a) \/ RenameFails(a) PROVE Text(target)' = Text(target)
    BY <2>3, SMT DEF WriteFails, RenameFails, names
  <2>4. Text(target)' = Text(target)
    BY <1>4, <2>2, <2>3, Zenon DEF GivesUp
  <2>5. File!GiveUp({a})
    BY <2>1, <2>4 DEF File!GiveUp
  <2> QED
    BY <2>5 DEF File!Next
<1>5. ASSUME NEW a \in Agents, RenameTemp(a) PROVE File!Next
  <2>1. a \in Undecided /\ Undecided' = Undecided \ {a}
    BY <1>5, SMT DEF RenameTemp, EndWrite
  <2>2. Text(target)' = a
    BY <1>5, SMT DEF RenameTemp
  <2> QED
    BY <2>1, <2>2 DEF File!Next, File!Replace
<1>6. ASSUME NEW a \in Agents, Other(a) PROVE UNCHANGED <<Text(target), Undecided>>
  BY <1>6, OtherFrame, SMT
<1>7. CASE Crash
  <2>1. Undecided' = {} /\ Text(target)' = Text(target)
    BY <1>7, SMT DEF Crash, names
  <2>2. Undecided' = Undecided \ Undecided /\ Undecided \in SUBSET Agents
    BY <2>1
  <2> QED
    BY <2>1, <2>2 DEF File!Next, File!GiveUp
<1>8. CASE UNCHANGED toolVars
  BY <1>8 DEF toolVars
<1> QED
  BY <1>1, <1>2, <1>3, <1>4, <1>5, <1>6, <1>7, <1>8 DEF ToolsNext, AgentStep, GivesUp, Other

(* write_file.rs 5-9 and 48-88: as long as no two writes of the path meet,  *)
(* and again once those that met are over, write_file is an atomic file:   *)
(* each write replaces the whole text in one step or, when any of its      *)
(* steps fails or the process dies, leaves it as it was.                   *)
THEOREM WriteFileIsAtomic ==
  ASSUME FileToolsAssumption
  PROVE  ToolsSpec => ImplementsAtomicFile
<1>1. ToolsInit => FileTypeOK /\ WriterInv
  BY FileInit
<1>2. FileTypeOK /\ WriterInv /\ [ToolsNext]_toolVars => FileTypeOK' /\ WriterInv'
  BY WriterNext
<1>3. ToolsInit => File!Init
  BY SMT DEF ToolsInit, File!Init, Text, Undecided, FileToolsAssumption
<1>4. FileTypeOK /\ WriterInv /\ [ToolsNext]_toolVars
        => [shared # {} \/ File!Next]_<<Text(target), Undecided>>
  BY StepRefines
<1> QED
  BY <1>1, <1>2, <1>3, <1>4, PTL DEF ToolsSpec, ImplementsAtomicFile

-----------------------------------------------------------------------------
(* What readers get.                                                       *)

Whole(i) == data[i] \notin {Empty, Mixed}

(* A reader keeps the inode it opened.  The path may since have gone to    *)
(* another one, but no writer opens that inode while the reader has it.    *)
ReaderInv ==
  /\ target # NoInode => Whole(target)
  /\ \A a \in Agents : doing[a] = "read" =>
       handle[a] \in Inodes /\ handle[a] # temp /\ Whole(handle[a])

LEMMA ReaderNext ==
  FileToolsAssumption /\ FileTypeOK /\ WriterInv /\ shared = {} /\ ReaderInv /\ [ToolsNext]_toolVars
    => ReaderInv'
<1> SUFFICES ASSUME FileToolsAssumption, FileTypeOK, WriterInv, shared = {}, ReaderInv,
                    [ToolsNext]_toolVars
             PROVE  ReaderInv'
  OBVIOUS
<1> USE DEF FileTypeOK, WriterInv, ReaderInv, Whole, Goto, Steps
<1>1. ASSUME NEW a \in Agents, BeginWrite(a) \/ WriteFails(a) \/ RenameFails(a)
      PROVE  ReaderInv'
  BY <1>1, SMT DEF BeginWrite, WriteFails, RenameFails, EndWrite, names, FileToolsAssumption
<1>2. ASSUME NEW a \in Agents, OpenTemp(a) PROVE ReaderInv'
  <2>1. PICK i \in Inodes : /\ i # target /\ (i = temp \/ i \notin InUse)
                            /\ temp' = i /\ data' = [data EXCEPT ![i] = Empty]
                            /\ handle' = [handle EXCEPT ![a] = i]
    BY <1>2, OpensAnotherInode
  <2>2. doing[a] = "write.open" /\ doing' = [doing EXCEPT ![a] = "write.fill"]
        /\ target' = target
    BY <1>2 DEF OpenTemp
  <2>3. \A b \in Agents : doing[b] = "read" => i # handle[b]
    BY <2>1, SMT DEF InUse, FileToolsAssumption
  <2> QED
    BY <2>1, <2>2, <2>3, SMT DEF FileToolsAssumption
<1>3. ASSUME NEW a \in Agents, FillTemp(a) \/ FillFails(a) PROVE ReaderInv'
  <2>1. doing[a] = "write.fill" /\ handle[a] = temp /\ temp \in Inodes /\ temp # target
    BY <1>3, SMT DEF FillTemp, FillFails
  <2>2. \E t : data' = [data EXCEPT ![temp] = t]
    BY <1>3, <2>1, Zenon DEF FillTemp, FillFails
  <2>3. /\ target' = target /\ temp' = temp
        /\ \E s \in {"write.rename", "idle"} : doing' = [doing EXCEPT ![a] = s]
        /\ \A b \in Agents \ {a} : handle'[b] = handle[b]
    BY <1>3, SMT DEF FillTemp, FillFails, EndWrite
  <2> QED
    BY <2>1, <2>2, <2>3, SMT DEF FileToolsAssumption
<1>4. ASSUME NEW a \in Agents, RenameTemp(a) PROVE ReaderInv'
  <2>1. data[temp] = a /\ a \notin {Empty, Mixed}
    BY <1>4, SMT DEF RenameTemp, FileToolsAssumption
  <2> QED
    BY <1>4, <2>1, SMT DEF RenameTemp, EndWrite, FileToolsAssumption
<1>5. ASSUME NEW a \in Agents, OpenTarget(a) PROVE ReaderInv'
  BY <1>5, SMT DEF OpenTarget, names, FileToolsAssumption
<1>6. ASSUME NEW a \in Agents, ReadTarget(a) PROVE ReaderInv'
  BY <1>6, SMT DEF ReadTarget, names
<1>7. ASSUME NEW a \in Agents, \/ StartCommand(a) \/ ChildSpawns(a) \/ ProcessExits(a)
                             \/ CommandReturns(a) \/ CommandAborted(a)
      PROVE  ReaderInv'
  BY <1>7, SMT DEF StartCommand, ChildSpawns, ProcessExits, CommandReturns, CommandAborted, names
<1>8. CASE Crash
  BY <1>8, SMT DEF Crash, names
<1>9. CASE UNCHANGED toolVars
  BY <1>9, SMT DEF toolVars
<1> QED
  BY <1>1, <1>2, <1>3, <1>4, <1>5, <1>6, <1>7, <1>8, <1>9 DEF ToolsNext, AgentStep

(* write_file.rs 7, read_file.rs: in a session whose agents never write the *)
(* path at the same time no reader ever sees a half-written file, whenever *)
(* it opens the path, whatever replaces the file while it has it open, and *)
(* however many writes, failures and crashes come before it reads.         *)
THEOREM ReadersSeeWholeTexts ==
  ASSUME FileToolsAssumption
  PROVE  ToolsSpec /\ [](shared = {}) => []ReadsAreWhole
<1>1. ToolsInit => FileTypeOK /\ WriterInv
  BY FileInit
<1>2. ToolsInit => ReaderInv
  BY SMT DEF ToolsInit, ReaderInv, Whole, FileToolsAssumption
<1>3. FileTypeOK /\ WriterInv /\ [ToolsNext]_toolVars => FileTypeOK' /\ WriterInv'
  BY WriterNext
<1>4. FileTypeOK /\ WriterInv /\ shared = {} /\ ReaderInv /\ [ToolsNext]_toolVars => ReaderInv'
  BY ReaderNext
<1>5. ReaderInv => ReadsAreWhole
  BY DEF ReaderInv, ReadsAreWhole, Whole
<1> QED
  BY <1>1, <1>2, <1>3, <1>4, <1>5, PTL DEF ToolsSpec
=============================================================================
