------------------------------ MODULE PipeProofs ------------------------------
(***************************************************************************)
(* What holds of the pipeline for any number of commands, any exit codes   *)
(* and pipes of any size.                                                  *)
(*                                                                         *)
(* Why a command gets its end of input when the one before it has exited,  *)
(* and not earlier, is in the order in which the parent makes pipes, forks *)
(* and closes: which ends it still has open in which phase (Open), and     *)
(* which of them its children therefore have (Ends).  That the exit code   *)
(* is that of the first failure needs what the calls on the way back have  *)
(* already combined (Reduced).                                             *)
(***************************************************************************)
EXTENDS Pipe, TLAPS

Alive == {"forked", "running"}

Types ==
  /\ phase \in Phase /\ level \in Command
  /\ child \in [Command -> Child]
  /\ code \in [Command -> Nat]
  /\ rd \in [PipeId -> SUBSET Process] /\ wr \in [PipeId -> SUBSET Process]
  /\ result \in Nat

(* Commands are forked from left to right and waited for from right to left. *)
Order ==
  \A i \in Command :
    /\ phase \in {"pipe", "fork"} => (child[i] # "none" <=> i < level)
    /\ phase = "close" => (child[i] # "none" <=> i <= level)
    /\ phase = "wait" => child[i] # "none" /\ (i > level => child[i] = "exited")
    /\ phase = "done" => child[i] = "exited"

(* What the parent has open.                                                *)
Open ==
  /\ phase \in {"fork", "close"} => Parent \in rd[level] /\ Parent \in wr[level]
  /\ phase \in {"pipe", "fork", "close"} => Parent \in rd[level - 1]
  /\ \A i \in Command :
       Parent \in wr[i] => level = i /\ phase \in {"fork", "close"}

(* What the commands have open: command i writes to pipe i and reads from   *)
(* pipe i - 1.                                                              *)
Ends ==
  \A i \in Command :
    /\ child[i] \in Alive => i \in wr[i] /\ i \in rd[i - 1]
    /\ wr[i] \subseteq {Parent, i}
    /\ child[i] = "exited" => i \notin wr[i]
    /\ i # Commands /\ child[i] # "none" /\ child[i + 1] = "none" => Parent \in rd[i]

(* What the calls for the commands after n have returned.                   *)
Reduced(n, codes, r) ==
  \/ r = 0 /\ \A j \in n + 1 .. Commands : codes[j] = 0
  \/ \E i \in n + 1 .. Commands :
       /\ codes[i] # 0 /\ r = codes[i]
       /\ \A j \in n + 1 .. i - 1 : codes[j] = 0

OnTheWayBack ==
  /\ phase \in {"pipe", "fork", "close"} => result = 0
  /\ phase = "wait" => Reduced(level, code, result)
  /\ phase = "done" => Reduced(0, code, result)

IInv == Types /\ Order /\ Open /\ Ends /\ OnTheWayBack

(* The end of the input of the next command comes when a command exits: no  *)
(* other process has the writing end, but for the parent that has forked it *)
(* and has not closed its own yet.                                          *)
EndComes ==
  \A i \in Command :
    child[i] = "exited" /\ ~ (level = i /\ phase = "close") => wr[i] = {}

-----------------------------------------------------------------------------
(* The steps of the parent.                                                *)

(* The invariant holds when the parent starts.                               *)
LEMMA InitInv == Init => IInv
<1> SUFFICES ASSUME Init PROVE IInv
  OBVIOUS
<1>1. Types
  BY CommandsAssumption DEF Init, Types, Phase, Child, Command, PipeId, Process, Parent
<1>2. Order
  BY DEF Init, Order, Command
<1>3. Open
  <2>1. /\ level - 1 = 0 /\ phase = "pipe" /\ 0 \in PipeId /\ Parent \in rd[0]
        /\ \A i \in Command : i \in PipeId /\ wr[i] = {}
    BY CommandsAssumption DEF Init, Command, PipeId
  <2> QED
    BY <2>1 DEF Open
<1>4. Ends
  BY DEF Init, Ends, Alive, Command, PipeId
<1>5. OnTheWayBack
  BY DEF Init, OnTheWayBack
<1> QED
  BY <1>1, <1>2, <1>3, <1>4, <1>5 DEF IInv

(* The parent makes the next pipe and holds both of its ends.                *)
LEMMA MakePipeInv == IInv /\ MakePipe => IInv'
<1> SUFFICES ASSUME IInv, MakePipe PROVE IInv'
  OBVIOUS
<1> USE DEF Command, PipeId, Process, Parent
<1>1. /\ phase = "pipe" /\ phase' = "fork" /\ level \in Command /\ Commands \in Nat
      /\ rd' = [rd EXCEPT ![level] = {Parent}] /\ wr' = [wr EXCEPT ![level] = {Parent}]
      /\ UNCHANGED <<level, child, code, result>>
  BY CommandsAssumption DEF IInv, Types, MakePipe
<1>2. Types'
  BY <1>1 DEF IInv, Types, Phase
<1>3. Order'
  BY <1>1 DEF IInv, Order
<1>4. Open'
  BY <1>1 DEF IInv, Types, Open
<1>5. Ends'
  BY <1>1 DEF IInv, Types, Order, Ends, Alive
<1>6. OnTheWayBack'
  BY <1>1 DEF IInv, OnTheWayBack
<1> QED
  BY <1>2, <1>3, <1>4, <1>5, <1>6 DEF IInv

(* The child has what the parent has: both ends of its own pipe, and the    *)
(* reading end of the one before.                                           *)
LEMMA ForkInv == IInv /\ Fork => IInv'
<1> SUFFICES ASSUME IInv, Fork PROVE IInv'
  OBVIOUS
<1> USE DEF Command, PipeId, Process, Parent
<1>1. /\ phase = "fork" /\ phase' = "close" /\ level \in Command /\ Commands \in Nat
      /\ child' = [child EXCEPT ![level] = "forked"]
      /\ rd' = Inherited(rd) /\ wr' = Inherited(wr)
      /\ UNCHANGED <<level, code, result>>
  BY CommandsAssumption DEF IInv, Types, Fork
<1>2. Types'
  BY <1>1 DEF IInv, Types, Phase, Child, Inherited
<1>3. Order'
  BY <1>1 DEF IInv, Types, Order
<1>4. \A p \in PipeId :
        /\ Parent \in rd'[p] <=> Parent \in rd[p]
        /\ rd[p] \subseteq rd'[p]
        /\ Parent \in rd[p] => level \in rd'[p]
  BY <1>1 DEF Inherited
<1>5. \A p \in PipeId :
        /\ Parent \in wr[p] => wr'[p] = wr[p] \cup {level}
        /\ Parent \notin wr[p] => wr'[p] = wr[p]
        /\ Parent \in wr'[p] <=> Parent \in wr[p]
  BY <1>1 DEF Inherited
<1>6. /\ level - 1 \in PipeId /\ level \in PipeId
      /\ \A i \in Command : i \in PipeId /\ i - 1 \in PipeId
  BY <1>1
<1>7. Open'
  <2>1. phase' \in {"fork", "close"} => Parent \in rd'[level'] /\ Parent \in wr'[level']
    BY <1>1, <1>4, <1>5, <1>6 DEF IInv, Open
  <2>2. Parent \in rd'[level' - 1]
    BY <1>1, <1>4, <1>6 DEF IInv, Open
  <2>3. \A i \in Command :
           Parent \in wr'[i] => level' = i /\ phase' \in {"fork", "close"}
    BY <1>1, <1>5, <1>6 DEF IInv, Open
  <2> QED
    BY <2>1, <2>2, <2>3 DEF Open
<1>8. Ends'
  <2> SUFFICES ASSUME NEW i \in Command
               PROVE  /\ child'[i] \in Alive => i \in wr'[i] /\ i \in rd'[i - 1]
                      /\ wr'[i] \subseteq {Parent, i}
                      /\ child'[i] = "exited" => i \notin wr'[i]
                      /\ i # Commands /\ child'[i] # "none" /\ child'[i + 1] = "none"
                           => Parent \in rd'[i]
    BY DEF Ends
  <2>1. child'[level] = "forked" /\ \A j \in Command \ {level} : child'[j] = child[j]
    BY <1>1 DEF IInv, Types
  <2>2. CASE i = level
    <3>1. Parent \in wr[i] /\ Parent \in rd[i] /\ Parent \in rd[i - 1]
      BY <1>1, <2>2 DEF IInv, Open
    <3>2. i \in wr'[i] /\ i \in rd'[i - 1] /\ Parent \in rd'[i]
      BY <1>4, <1>5, <1>6, <2>2, <3>1
    <3>3. wr[i] \subseteq {Parent, i}
      BY DEF IInv, Ends
    <3>4. wr'[i] \subseteq {Parent, i}
      BY <1>5, <1>6, <2>2, <3>1, <3>3
    <3> QED
      BY <2>1, <2>2, <3>2, <3>4
  <2>3. CASE i # level
    <3>1. child'[i] = child[i] /\ Parent \notin wr[i] /\ wr'[i] = wr[i]
      BY <1>5, <1>6, <2>1, <2>3 DEF IInv, Open
    <3>2. child[i] \in Alive => i \in rd'[i - 1]
      BY <1>4, <1>6 DEF IInv, Ends
    <3>3. i # Commands /\ child'[i + 1] = "none" => child[i + 1] = "none"
      BY <1>1, <2>1
    <3>4. Parent \in rd[i] => Parent \in rd'[i]
      BY <1>4, <1>6
    <3> QED
      BY <3>1, <3>2, <3>3, <3>4 DEF IInv, Ends
  <2> QED
    BY <2>2, <2>3
<1>9. OnTheWayBack'
  BY <1>1 DEF IInv, OnTheWayBack
<1> QED
  BY <1>2, <1>3, <1>7, <1>8, <1>9 DEF IInv

(* The parent keeps the reading end of the new pipe for the next child.     *)
LEMMA CloseEndsInv == IInv /\ CloseEnds => IInv'
<1> SUFFICES ASSUME IInv, CloseEnds PROVE IInv'
  OBVIOUS
<1> USE DEF Command, PipeId, Process, Parent
<1>1. /\ phase = "close" /\ level \in Command /\ Commands \in Nat \ {0}
      /\ rd' = [rd EXCEPT ![level - 1] = rd[level - 1] \ {Parent}]
      /\ wr' = [wr EXCEPT ![level] = wr[level] \ {Parent}]
      /\ \/ level = Commands /\ phase' = "wait" /\ level' = level
         \/ level < Commands /\ phase' = "pipe" /\ level' = level + 1
      /\ UNCHANGED <<child, code, result>>
  BY CommandsAssumption DEF IInv, Types, CloseEnds, ClosedRead, ClosedWrite, LastCall
<1>2. Types'
  BY <1>1 DEF IInv, Types, Phase
<1>3. Order'
  BY <1>1 DEF IInv, Types, Order, Child
<1>4. /\ level - 1 \in PipeId /\ level \in PipeId
      /\ \A i \in Command : i \in PipeId /\ i - 1 \in PipeId
      /\ \A p \in PipeId : p # level => wr'[p] = wr[p]
      /\ \A p \in PipeId : p # level - 1 => rd'[p] = rd[p]
      /\ \A p \in PipeId : \A i \in Command : i \in rd[p] => i \in rd'[p]
      /\ wr'[level] = wr[level] \ {Parent}
  BY <1>1 DEF IInv, Types
<1>5. Open'
  <2>1. phase' \in {"pipe", "fork", "close"} => Parent \in rd'[level' - 1]
    BY <1>1, <1>4 DEF IInv, Open
  <2>2. \A i \in Command : Parent \notin wr'[i]
    BY <1>1, <1>4 DEF IInv, Open
  <2> QED
    BY <1>1, <2>1, <2>2 DEF Open
<1>6. Ends'
  <2> SUFFICES ASSUME NEW i \in Command
               PROVE  /\ child[i] \in Alive => i \in wr'[i] /\ i \in rd'[i - 1]
                      /\ wr'[i] \subseteq {Parent, i}
                      /\ child[i] = "exited" => i \notin wr'[i]
                      /\ i # Commands /\ child[i] # "none" /\ child[i + 1] = "none"
                           => Parent \in rd'[i]
    BY <1>1 DEF Ends
  <2>1. /\ child[i] \in Alive => i \in wr[i] /\ i \in rd[i - 1]
        /\ wr[i] \subseteq {Parent, i}
        /\ child[i] = "exited" => i \notin wr[i]
        /\ i # Commands /\ child[i] # "none" /\ child[i + 1] = "none"
             => Parent \in rd[i]
    BY DEF IInv, Ends
  <2>2. i # Parent /\ wr'[i] \subseteq wr[i] /\ (i \in wr'[i] <=> i \in wr[i])
    BY <1>4
  <2>3. i # Commands /\ child[i + 1] = "none" => i # level - 1
    BY <1>1 DEF IInv, Order
  <2> QED
    BY <1>4, <2>1, <2>2, <2>3
<1>7. OnTheWayBack'
  BY <1>1 DEF IInv, OnTheWayBack, Reduced
<1> QED
  BY <1>2, <1>3, <1>5, <1>6, <1>7 DEF IInv

(* One more exit code is combined with those to its right.                  *)
LEMMA WaitInv == IInv /\ Wait => IInv'
<1> SUFFICES ASSUME IInv, Wait PROVE IInv'
  OBVIOUS
<1> USE DEF Command, PipeId, Process, Parent
<1>1. /\ phase = "wait" /\ level \in Command /\ Commands \in Nat \ {0}
      /\ child[level] = "exited"
      /\ result' = (IF code[level] # 0 THEN code[level] ELSE result)
      /\ \/ level = 1 /\ phase' = "done" /\ level' = level
         \/ level > 1 /\ phase' = "wait" /\ level' = level - 1
      /\ UNCHANGED <<child, code, rd, wr>>
  BY CommandsAssumption DEF IInv, Types, Wait, Combined
<1>2. Types'
  BY <1>1 DEF IInv, Types, Phase
<1>3. Order'
  BY <1>1 DEF IInv, Types, Order
<1>4. Open'
  BY <1>1 DEF IInv, Open
<1>5. Ends'
  BY <1>1 DEF IInv, Ends
<1>6. Reduced(level - 1, code, result')
  <2>1. /\ \A j \in (level - 1) + 1 .. Commands : j = level \/ j \in level + 1 .. Commands
        /\ level \in (level - 1) + 1 .. Commands
        /\ \A j \in level + 1 .. Commands : j \in (level - 1) + 1 .. Commands
    BY <1>1
  <2>2. CASE code[level] # 0
    <3>1. \A j \in (level - 1) + 1 .. level - 1 : code[j] = 0
      BY <1>1
    <3> QED
      BY <1>1, <2>1, <2>2, <3>1 DEF Reduced
  <2>3. CASE code[level] = 0
    <3>1. CASE result = 0 /\ \A j \in level + 1 .. Commands : code[j] = 0
      BY <1>1, <2>1, <2>3, <3>1 DEF Reduced
    <3>2. ASSUME NEW i \in level + 1 .. Commands,
                 code[i] # 0, result = code[i], \A j \in level + 1 .. i - 1 : code[j] = 0
          PROVE  Reduced(level - 1, code, result')
      <4>1. \A j \in (level - 1) + 1 .. i - 1 : code[j] = 0
        BY <1>1, <2>3, <3>2
      <4> QED
        BY <1>1, <2>1, <2>3, <3>2, <4>1 DEF Reduced
    <3> QED
      BY <1>1, <3>1, <3>2 DEF IInv, OnTheWayBack, Reduced
  <2> QED
    BY <2>2, <2>3
<1>7. OnTheWayBack'
  BY <1>1, <1>6 DEF OnTheWayBack
<1> QED
  BY <1>2, <1>3, <1>4, <1>5, <1>7 DEF IInv

-----------------------------------------------------------------------------
(* The steps of the commands.                                              *)

(* A command that exits takes its own ends with it, and only its code is    *)
(* set; the parent has combined none of the codes up to level yet.          *)
LEMMA ExitsInv ==
  ASSUME IInv, NEW i \in Command, child[i] \in Alive,
         NEW status \in Nat, Exits(i, status), UNCHANGED <<phase, level, result>>
  PROVE  IInv'
<1> USE DEF Command, PipeId, Process, Parent
<1>1. /\ level \in Command /\ Commands \in Nat
      /\ child' = [child EXCEPT ![i] = "exited"]
      /\ code' = [code EXCEPT ![i] = status]
      /\ \A p \in PipeId : rd'[p] = rd[p] \ {i} /\ wr'[p] = wr[p] \ {i}
      /\ UNCHANGED <<phase, level, result>>
  BY CommandsAssumption DEF IInv, Types, Exits, Gone
<1>2. Types'
  BY <1>1 DEF IInv, Types, Child, Exits, Gone
<1>3. /\ child'[i] = "exited" /\ \A j \in Command \ {i} : child'[j] = child[j]
      /\ child[i] # "none" /\ child[i] # "exited"
      /\ \A j \in Command \ {i} : code'[j] = code[j]
  BY <1>1 DEF IInv, Types, Alive
<1>4. Order'
  BY <1>1, <1>3 DEF IInv, Order
<1>5. phase # "done" /\ (phase = "wait" => i <= level)
  BY <1>1, <1>3 DEF IInv, Order
<1>6. level - 1 \in PipeId /\ \A j \in Command : j \in PipeId /\ j - 1 \in PipeId
  BY <1>1
<1>7. Open'
  BY <1>1, <1>6 DEF IInv, Open
<1>8. Ends'
  <2> SUFFICES ASSUME NEW j \in Command
               PROVE  /\ child'[j] \in Alive => j \in wr'[j] /\ j \in rd'[j - 1]
                      /\ wr'[j] \subseteq {Parent, j}
                      /\ child'[j] = "exited" => j \notin wr'[j]
                      /\ j # Commands /\ child'[j] # "none" /\ child'[j + 1] = "none"
                           => Parent \in rd'[j]
    BY DEF Ends
  <2>1. /\ child[j] \in Alive => j \in wr[j] /\ j \in rd[j - 1]
        /\ wr[j] \subseteq {Parent, j}
        /\ child[j] = "exited" => j \notin wr[j]
        /\ j # Commands /\ child[j] # "none" /\ child[j + 1] = "none"
             => Parent \in rd[j]
    BY DEF IInv, Ends
  <2>2. /\ rd'[j] = rd[j] \ {i} /\ wr'[j] = wr[j] \ {i} /\ rd'[j - 1] = rd[j - 1] \ {i}
        /\ i # Parent
    BY <1>1, <1>6
  <2>3. j # Commands => j + 1 \in Command
    BY <1>1
  <2> QED
    BY <1>3, <2>1, <2>2, <2>3 DEF Alive
<1>9. OnTheWayBack'
  <2>1. ASSUME phase = "wait" PROVE Reduced(level, code', result)
    <3>1. \A j \in level + 1 .. Commands : code'[j] = code[j]
      BY <1>1, <1>3, <1>5, <2>1
    <3>2. Reduced(level, code, result)
      BY <2>1 DEF IInv, OnTheWayBack
    <3>3. CASE result = 0 /\ \A j \in level + 1 .. Commands : code[j] = 0
      BY <3>1, <3>3 DEF Reduced
    <3>4. ASSUME NEW k \in level + 1 .. Commands, code[k] # 0, result = code[k],
                 \A j \in level + 1 .. k - 1 : code[j] = 0
          PROVE  Reduced(level, code', result)
      <4>1. \A j \in level + 1 .. k - 1 : j \in level + 1 .. Commands
        BY <1>1
      <4> QED
        BY <3>1, <3>4, <4>1 DEF Reduced
    <3> QED
      BY <3>2, <3>3, <3>4 DEF Reduced
  <2> QED
    BY <1>1, <1>5, <2>1 DEF IInv, OnTheWayBack
<1> QED
  BY <1>2, <1>4, <1>7, <1>8, <1>9 DEF IInv

(* A command that starts gives up the reading end of its own pipe, which    *)
(* neither it nor the parent needs from it.                                 *)
LEMMA ExecInv ==
  ASSUME IInv, NEW i \in Command, Exec(i)
  PROVE  IInv'
<1> USE DEF Command, PipeId, Process, Parent
<1>1. /\ level \in Command /\ Commands \in Nat
      /\ child[i] = "forked" /\ child' = [child EXCEPT ![i] = "running"]
      /\ rd' = [rd EXCEPT ![i] = rd[i] \ {i}]
      /\ UNCHANGED <<phase, level, code, wr, result>>
  BY CommandsAssumption DEF IInv, Types, Exec
<1>2. Types'
  BY <1>1 DEF IInv, Types, Child
<1>3. /\ child'[i] = "running" /\ \A j \in Command \ {i} : child'[j] = child[j]
      /\ level - 1 \in PipeId
      /\ \A j \in Command : j \in PipeId /\ j - 1 \in PipeId /\ j - 1 # j
      /\ rd'[i] = rd[i] \ {i} /\ \A p \in PipeId \ {i} : rd'[p] = rd[p]
  BY <1>1 DEF IInv, Types
<1>4. Order'
  BY <1>1, <1>3 DEF IInv, Order
<1>5. Open'
  BY <1>1, <1>3 DEF IInv, Open
<1>6. Ends'
  <2> SUFFICES ASSUME NEW j \in Command
               PROVE  /\ child'[j] \in Alive => j \in wr[j] /\ j \in rd'[j - 1]
                      /\ wr[j] \subseteq {Parent, j}
                      /\ child'[j] = "exited" => j \notin wr[j]
                      /\ j # Commands /\ child'[j] # "none" /\ child'[j + 1] = "none"
                           => Parent \in rd'[j]
    BY <1>1 DEF Ends
  <2>1. /\ child[j] \in Alive => j \in wr[j] /\ j \in rd[j - 1]
        /\ wr[j] \subseteq {Parent, j}
        /\ child[j] = "exited" => j \notin wr[j]
        /\ j # Commands /\ child[j] # "none" /\ child[j + 1] = "none"
             => Parent \in rd[j]
    BY DEF IInv, Ends
  <2>2. j \in rd[j - 1] => j \in rd'[j - 1]
    BY <1>1, <1>3
  <2>3. Parent \in rd[j] => Parent \in rd'[j]
    BY <1>1, <1>3
  <2>4. j # Commands => j + 1 \in Command
    BY <1>1
  <2> QED
    BY <1>1, <1>3, <2>1, <2>2, <2>3, <2>4 DEF Alive
<1>7. OnTheWayBack'
  BY <1>1 DEF IInv, OnTheWayBack
<1> QED
  BY <1>2, <1>4, <1>5, <1>6, <1>7 DEF IInv

(* Data that moves through the pipes leaves the rest alone.                 *)
LEMMA QuietInv ==
  IInv /\ UNCHANGED <<phase, level, child, code, rd, wr, result>> => IInv'
<1> SUFFICES ASSUME IInv, UNCHANGED <<phase, level, child, code, rd, wr, result>>
             PROVE  IInv'
  OBVIOUS
<1>1. Types'
  BY DEF IInv, Types
<1>2. Order'
  BY DEF IInv, Order
<1>3. Open'
  BY DEF IInv, Open
<1>4. Ends'
  BY DEF IInv, Ends
<1>5. OnTheWayBack'
  BY DEF IInv, OnTheWayBack
<1> QED
  BY <1>1, <1>2, <1>3, <1>4, <1>5 DEF IInv

(* Every step of the pipeline keeps IInv.                                   *)
LEMMA NextInv == IInv /\ [Next]_vars => IInv'
<1> SUFFICES ASSUME IInv, [Next]_vars PROVE IInv'
  OBVIOUS
<1>1. \A c \in Codes : c \in Nat
  BY CodesAssumption
<1>2. 0 \in Nat
  OBVIOUS
<1>3. CASE MakePipe
  BY <1>3, MakePipeInv
<1>4. CASE Fork
  BY <1>4, ForkInv
<1>5. CASE CloseEnds
  BY <1>5, CloseEndsInv
<1>6. CASE Wait
  BY <1>6, WaitInv
<1>7. ASSUME NEW i \in Command, ChildStep(i) \/ StopsEarly(i)
      PROVE  IInv'
  <2>1. CASE Exec(i)
    BY <2>1, ExecInv
  <2>2. CASE ExecFails(i)
    <3>1. PICK errno \in Codes \ {0} : Exits(i, errno)
      BY <2>2 DEF ExecFails
    <3>2. child[i] \in Alive /\ UNCHANGED <<phase, level, result>>
      BY <2>2 DEF ExecFails, Alive
    <3> QED
      BY <1>1, <3>1, <3>2, ExitsInv
  <2>3. CASE Read(i)
    BY <2>3, QuietInv DEF Read
  <2>4. CASE Write(i)
    BY <2>4, QuietInv DEF Write
  <2>5. CASE WriteBroken(i)
    <3>1. child[i] \in Alive /\ Exits(i, 0) /\ UNCHANGED <<phase, level, result>>
      BY <2>5 DEF WriteBroken, Alive
    <3> QED
      BY <1>2, <3>1, ExitsInv
  <2>6. CASE EndOfInput(i)
    <3>1. PICK status \in Codes : Exits(i, status)
      BY <2>6 DEF EndOfInput
    <3>2. child[i] \in Alive /\ UNCHANGED <<phase, level, result>>
      BY <2>6 DEF EndOfInput, Alive
    <3> QED
      BY <1>1, <3>1, <3>2, ExitsInv
  <2>7. CASE StopsEarly(i)
    <3>1. PICK status \in Codes : Exits(i, status)
      BY <2>7 DEF StopsEarly
    <3>2. child[i] \in Alive /\ UNCHANGED <<phase, level, result>>
      BY <2>7 DEF StopsEarly, Alive
    <3> QED
      BY <1>1, <3>1, <3>2, ExitsInv
  <2> QED
    BY <1>7, <2>1, <2>2, <2>3, <2>4, <2>5, <2>6, <2>7 DEF ChildStep
<1>8. CASE Done \/ UNCHANGED vars
  BY <1>8, QuietInv DEF Done, vars
<1> QED
  BY <1>3, <1>4, <1>5, <1>6, <1>7, <1>8 DEF Next, ParentStep

-----------------------------------------------------------------------------
(* What follows.                                                           *)

(* IInv holds in every state of the pipeline.                               *)
THEOREM InvHolds == Spec => []IInv
<1>1. QED
  BY InitInv, NextInv, PTL DEF Spec

(* A command sees the end of its input only when the command before it has  *)
(* exited (the calls of close at pipe.c:56-57 and what fork copied).        *)
THEOREM EndOnlyFromProducer == Spec => []EndIsProducersEnd
<1>1. IInv => EndIsProducersEnd
  <2> SUFFICES ASSUME IInv, NEW i \in Command \ {1}, child[i] # "none", wr[i - 1] = {}
               PROVE  child[i - 1] = "exited"
    BY DEF EndIsProducersEnd
  <2>1. i - 1 \in Command /\ i \in Command /\ i - 1 < i /\ i \in Int /\ level \in Int
    BY CommandsAssumption DEF Command, IInv, Types
  <2>2. child[i - 1] # "none"
    BY <2>1 DEF IInv, Order, Types, Phase
  <2> QED
    BY <2>1, <2>2 DEF IInv, Ends, Types, Child, Alive
<1> QED
  BY <1>1, InvHolds, PTL

(* A command that wants to write finds no reader only when the command      *)
(* after it has exited: until that one is forked the parent keeps the       *)
(* reading end for it (pipe.c:56 closes only the end of the pipe before).   *)
THEOREM SigpipeOnlyFromReader == Spec => []NoEarlySigpipe
<1>1. IInv => NoEarlySigpipe
  <2> SUFFICES ASSUME IInv, NEW i \in Command \ {Commands},
                      child[i] \in Alive, rd[i] = {}
               PROVE  child[i + 1] = "exited"
    BY DEF NoEarlySigpipe, Alive
  <2>1. i \in Command /\ i + 1 \in Command /\ (i + 1) - 1 = i /\ i # Commands
    BY CommandsAssumption DEF Command
  <2>2. child[i + 1] # "none"
    BY <2>1 DEF IInv, Ends, Alive
  <2> QED
    BY <2>1, <2>2 DEF IInv, Ends, Types, Child, Alive
<1> QED
  BY <1>1, InvHolds, PTL

(* The exit code of the pipeline is that of the leftmost command that       *)
(* failed, however the commands end and in whatever order (pipe.c:59-92).   *)
THEOREM ResultOfPipeline == Spec => []ResultIsFirstFailure
<1>1. IInv => ResultIsFirstFailure
  <2> SUFFICES ASSUME IInv, phase = "done" PROVE result = FirstFailure
    BY DEF ResultIsFirstFailure
  <2>1. Reduced(0, code, result)
    BY DEF IInv, OnTheWayBack
  <2>2. Command = 0 + 1 .. Commands /\ \A i \in Command : 0 + 1 .. i - 1 = 1 .. i - 1
    BY DEF Command
  <2>3. CASE \A i \in Command : code[i] = 0
    <3>1. result = 0
      BY <2>1, <2>2, <2>3 DEF Reduced
    <3> QED
      BY <2>3, <3>1 DEF FirstFailure
  <2>4. CASE ~ \A i \in Command : code[i] = 0
    <3>1. PICK i \in Command : /\ code[i] # 0 /\ result = code[i]
                               /\ \A j \in 1 .. i - 1 : code[j] = 0
      BY <2>1, <2>2, <2>4 DEF Reduced
    <3>2. ASSUME NEW k \in Command, code[k] # 0, \A j \in 1 .. k - 1 : code[j] = 0
          PROVE  k = i
      <4>1. ~ (k \in 1 .. i - 1) /\ ~ (i \in 1 .. k - 1)
        BY <3>1, <3>2
      <4> QED
        BY <4>1, CommandsAssumption DEF Command
    <3> DEFINE First == CHOOSE k \in Command : code[k] # 0 /\ \A j \in 1 .. k - 1 : code[j] = 0
    <3>3. First = i
      BY <3>1, <3>2
    <3>4. FirstFailure = code[First]
      BY <2>4, Zenon DEF FirstFailure
    <3> QED
      BY <3>1, <3>3, <3>4
  <2> QED
    BY <2>3, <2>4
<1> QED
  BY <1>1, InvHolds, PTL

(* When a command has exited and the parent has closed its copy, nobody has *)
(* the writing end of its pipe: the next command does reach the end of its  *)
(* input.  This is the safety part of Terminates.                           *)
THEOREM EndOfInputComes == Spec => []EndComes
<1>1. IInv => EndComes
  <2> SUFFICES ASSUME IInv, NEW i \in Command, child[i] = "exited",
                      ~ (level = i /\ phase = "close")
               PROVE  wr[i] = {}
    BY DEF EndComes
  <2>1. i \notin wr[i] /\ wr[i] \subseteq {Parent, i}
    BY DEF IInv, Ends
  <2>2. ~ (level = i /\ phase = "fork")
    BY DEF IInv, Order, Types, Command
  <2>3. Parent \notin wr[i]
    BY <2>2 DEF IInv, Open
  <2> QED
    BY <2>1, <2>3
<1> QED
  BY <1>1, InvHolds, PTL

=============================================================================
