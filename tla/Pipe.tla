-------------------------------- MODULE Pipe --------------------------------
(***************************************************************************)
(* The pipeline of src/pipe/pipe.c: recur_pipe_call makes a pipe, forks a  *)
(* child for the next command, calls itself for the rest of the commands,  *)
(* and waits for its child on the way back.                                *)
(*                                                                         *)
(* The commands are external programs: filters that read their input to    *)
(* its end unless they stop early.  What the kernel does with descriptors  *)
(* at fork and exit is part of the model: a pipe ends when nobody has its  *)
(* writing end open, and a writer is killed when nobody can read.          *)
(*                                                                         *)
(* A name with a suffix _M... is the definition below it with one mistake; *)
(* no specification uses it.                                               *)
(***************************************************************************)
EXTENDS Integers, FiniteSets

CONSTANTS
  Commands,   \* the number of commands, argc - 1
  Codes,      \* exit codes of the commands
  PipeSize,   \* how much fits into a pipe
  Input       \* how much the first command finds on stdin

ASSUME CommandsAssumption == Commands \in Nat \ {0}
ASSUME CodesAssumption == Codes \subseteq 0 .. 255
ASSUME DataAssumption == PipeSize \in Nat \ {0} /\ Input \in Nat

VARIABLES
  phase,     \* where the parent is in recur_pipe_call
  level,     \* index_of_command of the call that runs
  child,     \* what became of the child of each command
  code,      \* its exit status, as WEXITSTATUS gives it
  rd, wr,    \* who has the ends of each pipe open; pipe 0 is stdin
  data,      \* how much is in each pipe
  holding,   \* what each command has read and not yet written
  result     \* exit_code on the way back

vars == <<phase, level, child, code, rd, wr, data, holding, result>>

Command == 1 .. Commands
PipeId == 0 .. Commands
Parent == 0
Process == {Parent} \cup Command

Phase == {"pipe", "fork", "close", "wait", "done"}
Child == {"none", "forked", "running", "exited"}

-----------------------------------------------------------------------------
(* main calls recur_pipe_call with STDIN_FILENO.                            *)
Init ==
  /\ phase = "pipe" /\ level = 1
  /\ child = [i \in Command |-> "none"]
  /\ code = [i \in Command |-> 0]
  /\ rd = [p \in PipeId |-> IF p = 0 THEN {Parent} ELSE {}]
  /\ wr = [p \in PipeId |-> {}]
  /\ data = [p \in PipeId |-> IF p = 0 THEN Input ELSE 0]
  /\ holding = [i \in Command |-> 0]
  /\ result = 0

(* The parent: lines 31, 35, 56-57, 59-92.                                  *)
MakePipe ==
  /\ phase = "pipe"
  /\ rd' = [rd EXCEPT ![level] = {Parent}]
  /\ wr' = [wr EXCEPT ![level] = {Parent}]
  /\ phase' = "fork"
  /\ UNCHANGED <<level, child, code, data, holding, result>>

Inherited_MForkFirst(ends) ==
  [p \in PipeId |-> IF Parent \in ends[p] /\ p # level THEN ends[p] \cup {level}
                    ELSE ends[p]]
Inherited(ends) ==
  [p \in PipeId |-> IF Parent \in ends[p] THEN ends[p] \cup {level} ELSE ends[p]]

Fork ==
  /\ phase = "fork"
  /\ child' = [child EXCEPT ![level] = "forked"]
  /\ rd' = Inherited(rd)
  /\ wr' = Inherited(wr)
  /\ phase' = "close"
  /\ UNCHANGED <<level, code, data, holding, result>>

(* The call for the last command makes no further call (line 59).           *)
LastCall_MOneMore == level > Commands
LastCall == level = Commands

ClosedRead_MOwn == [rd EXCEPT ![level - 1] = @ \ {Parent}, ![level] = @ \ {Parent}]
ClosedRead == [rd EXCEPT ![level - 1] = @ \ {Parent}]

ClosedWrite_MOpen == wr
ClosedWrite == [wr EXCEPT ![level] = @ \ {Parent}]

CloseEnds ==
  /\ phase = "close"
  /\ rd' = ClosedRead
  /\ wr' = ClosedWrite
  /\ IF LastCall
     THEN phase' = "wait" /\ UNCHANGED level
     ELSE phase' = "pipe" /\ level' = level + 1
  /\ UNCHANGED <<child, code, data, holding, result>>

(* Lines 81-92 reduce to this.                                              *)
Combined_MKeep(rest, own) == IF rest # 0 THEN rest ELSE own
Combined(rest, own) == IF own # 0 THEN own ELSE rest

Wait ==
  /\ phase = "wait"
  /\ child[level] = "exited"
  /\ result' = Combined(result, code[level])
  /\ IF level = 1
     THEN phase' = "done" /\ UNCHANGED level
     ELSE level' = level - 1 /\ UNCHANGED phase
  /\ UNCHANGED <<child, code, rd, wr, data, holding>>

-----------------------------------------------------------------------------
(* A process ends: all its descriptors are closed.                          *)
Gone(ends, i) == [p \in PipeId |-> ends[p] \ {i}]

Exits(i, status) ==
  /\ child' = [child EXCEPT ![i] = "exited"]
  /\ code' = [code EXCEPT ![i] = status]
  /\ rd' = Gone(rd, i)
  /\ wr' = Gone(wr, i)

(* The child, lines 38-53.  execlp fails with an errno, or the command runs *)
(* with the descriptors it finds.                                           *)
Exec(i) ==
  /\ child[i] = "forked"
  /\ child' = [child EXCEPT ![i] = "running"]
  /\ rd' = [rd EXCEPT ![i] = @ \ {i}]
  /\ UNCHANGED <<phase, level, code, wr, data, holding, result>>

ExecFails(i) ==
  /\ child[i] = "forked"
  /\ \E errno \in Codes \ {0} : Exits(i, errno)
  /\ UNCHANGED <<phase, level, data, holding, result>>

(* The command reads, and keeps or drops what it has read.                  *)
Read(i) ==
  /\ child[i] = "running" /\ holding[i] = 0
  /\ data[i - 1] > 0
  /\ data' = [data EXCEPT ![i - 1] = @ - 1]
  /\ \E kept \in {0, 1} : holding' = [holding EXCEPT ![i] = kept]
  /\ UNCHANGED <<phase, level, child, code, rd, wr, result>>

(* The last command writes to the terminal.                                 *)
Write(i) ==
  /\ child[i] = "running" /\ holding[i] = 1
  /\ holding' = [holding EXCEPT ![i] = 0]
  /\ IF i = Commands
     THEN UNCHANGED data
     ELSE /\ rd[i] # {}
          /\ data[i] < PipeSize
          /\ data' = [data EXCEPT ![i] = @ + 1]
  /\ UNCHANGED <<phase, level, child, code, rd, wr, result>>

(* SIGPIPE: WEXITSTATUS of a process that a signal killed is 0.             *)
WriteBroken(i) ==
  /\ child[i] = "running" /\ holding[i] = 1
  /\ i # Commands /\ rd[i] = {}
  /\ Exits(i, 0)
  /\ UNCHANGED <<phase, level, data, holding, result>>

EndOfInput(i) ==
  /\ child[i] = "running" /\ holding[i] = 0
  /\ data[i - 1] = 0 /\ wr[i - 1] = {}
  /\ \E status \in Codes : Exits(i, status)
  /\ UNCHANGED <<phase, level, data, holding, result>>

StopsEarly(i) ==
  /\ child[i] = "running"
  /\ \E status \in Codes : Exits(i, status)
  /\ UNCHANGED <<phase, level, data, holding, result>>

Done == phase = "done" /\ UNCHANGED vars

ParentStep == MakePipe \/ Fork \/ CloseEnds \/ Wait
ChildStep(i) == Exec(i) \/ ExecFails(i) \/ Read(i) \/ Write(i) \/ WriteBroken(i)
                  \/ EndOfInput(i)

Next ==
  \/ ParentStep
  \/ \E i \in Command : ChildStep(i) \/ StopsEarly(i)
  \/ Done

(* Processes that are not blocked run; a command need not stop before its   *)
(* input does.                                                              *)
Spec ==
  /\ Init /\ [][Next]_vars
  /\ WF_vars(ParentStep)
  /\ \A i \in Command : WF_vars(ChildStep(i))

-----------------------------------------------------------------------------
(* Properties.                                                             *)

(* A command sees the end of its input only when the command before it has  *)
(* exited: nobody else ever has that writing end, and it has it in time.    *)
EndIsProducersEnd ==
  \A i \in Command \ {1} :
    child[i] # "none" /\ wr[i - 1] = {} => child[i - 1] = "exited"

(* A command is killed by SIGPIPE only when the one after it has exited,    *)
(* not because that one has not been forked yet.                            *)
NoEarlySigpipe ==
  \A i \in Command \ {Commands} :
    child[i] \in {"forked", "running"} /\ rd[i] = {} => child[i + 1] = "exited"

(* The exit code of the pipeline is that of the first command, from the     *)
(* left, that failed.                                                       *)
FirstFailure ==
  IF \A i \in Command : code[i] = 0 THEN 0
  ELSE code[CHOOSE i \in Command : code[i] # 0 /\ \A j \in 1 .. i - 1 : code[j] = 0]
ResultIsFirstFailure == phase = "done" => result = FirstFailure

(* The pipeline comes to its end: every reader gets its end of input, and   *)
(* nobody waits for a child that waits for the parent.                      *)
Terminates == <>(phase = "done")

=============================================================================
