----------------------------- MODULE Structured -----------------------------
(***************************************************************************)
(* What a small-lang function body means before it is cut into basic       *)
(* blocks.  A body is a sequence of statements, some of them nested; one   *)
(* execution of it is followed while the compiler reads it, each if        *)
(* statement taking one branch, chosen freely.  The module knows nothing   *)
(* of blocks, branches or insertion points: Lowering.tla, the model of     *)
(* StatmentVisitor and GlobalVisitor, is shown to implement it.            *)
(***************************************************************************)
EXTENDS Naturals, Sequences

VARIABLES
    nest,       \* the open nested statements, outermost first
    here,       \* the status of the point the compiler has reached
    count,      \* statements and globals read so far: names the next one
    returned,   \* the return statement the execution ran, 0 if none yet
    dead,       \* some code was written where no body can run it
    phase       \* "idle" between globals, "body" inside a function, or an end

vars == <<nest, here, count, returned, dead, phase>>

(***************************************************************************)
(* closed: no body goes on at this point.  The statement just before it is *)
(* a return (or an if both of whose branches end so), or no body has begun *)
(* yet.  active: the followed execution is here.                           *)
(***************************************************************************)
Status == [closed : BOOLEAN, active : BOOLEAN]
Nowhere == [closed |-> TRUE, active |-> FALSE]
Frame == [kind : {"block", "then", "else"}, other : Status]

TypeOK ==
    /\ nest \in Seq(Frame)
    /\ here \in Status
    /\ count \in Nat
    /\ returned \in Nat
    /\ dead \in BOOLEAN
    /\ phase \in {"idle", "body", "failed", "accepted", "rejected"}

Top == nest[Len(nest)]
Outer == SubSeq(nest, 1, Len(nest) - 1)

Init ==
    /\ nest = << >>
    /\ here = Nowhere
    /\ count = 0
    /\ returned = 0
    /\ dead = FALSE
    /\ phase = "idle"

(***************************************************************************)
(* Code written where no body goes on is dead, and hides that from         *)
(* whatever looks only at the last thing written.                          *)
(***************************************************************************)
Write(writes) ==
    /\ dead' = (dead \/ (writes /\ here.closed))
    /\ here' = [here EXCEPT !.closed = @ /\ ~writes]

Declare ==
    /\ phase = "idle"
    /\ count' = count + 1
    /\ UNCHANGED <<nest, here, returned, dead, phase>>

StartBody ==
    /\ phase = "idle"
    /\ phase' = "body"
    /\ nest' = << >>
    /\ here' = [closed |-> FALSE, active |-> TRUE]
    /\ returned' = 0
    /\ count' = count + 1
    /\ UNCHANGED dead

(***************************************************************************)
(* An expression statement.  Between functions its code has nowhere to go: *)
(* it lands after the return of the function before, or before any body.   *)
(***************************************************************************)
Work(writes) ==
    /\ phase \in {"idle", "body"}
    /\ Write(writes)
    /\ count' = count + 1
    /\ UNCHANGED <<nest, returned, phase>>

Return ==
    /\ phase = "body"
    /\ dead' = (dead \/ here.closed)
    /\ here' = Nowhere
    /\ returned' = IF here.active THEN count + 1 ELSE returned
    /\ count' = count + 1
    /\ UNCHANGED <<nest, phase>>

OpenBlock ==
    /\ phase = "body"
    /\ nest' = Append(nest, [kind |-> "block", other |-> Nowhere])
    /\ count' = count + 1
    /\ UNCHANGED <<here, returned, dead, phase>>

CloseBlock ==
    /\ phase = "body"
    /\ nest # << >>
    /\ Top.kind = "block"
    /\ nest' = Outer
    /\ UNCHANGED <<here, count, returned, dead, phase>>

Branch(active) == [closed |-> FALSE, active |-> active]

OpenThen(taken) ==
    /\ phase = "body"
    /\ dead' = (dead \/ here.closed)
    /\ here' = Branch(here.active /\ taken)
    /\ nest' = Append(nest, [kind |-> "then",
                             other |-> Branch(here.active /\ ~taken)])
    /\ count' = count + 1
    /\ UNCHANGED <<returned, phase>>

OpenElse ==
    /\ phase = "body"
    /\ nest # << >>
    /\ Top.kind = "then"
    /\ nest' = Append(Outer, [kind |-> "else", other |-> here])
    /\ here' = Top.other
    /\ UNCHANGED <<count, returned, dead, phase>>

(* An if statement can be left through either of its branches. *)
CloseIf ==
    /\ phase = "body"
    /\ nest # << >>
    /\ Top.kind = "else"
    /\ nest' = Outer
    /\ here' = [closed |-> here.closed /\ Top.other.closed,
                active |-> here.active \/ Top.other.active]
    /\ UNCHANGED <<count, returned, dead, phase>>

(* A body is complete when its last statement is a return. *)
EndBody ==
    /\ phase = "body"
    /\ nest = << >>
    /\ here.closed
    /\ phase' = "idle"
    /\ UNCHANGED <<nest, here, count, returned, dead>>

(* The program is given up: an error or an unimplemented construct. *)
Abandon ==
    /\ phase \in {"idle", "body"}
    /\ phase' = "failed"
    /\ UNCHANGED <<nest, here, returned, dead>>
    /\ count' \in {count, count + 1}

(* An error is handed out of the nested statements one by one. *)
Leave ==
    /\ phase = "failed"
    /\ nest # << >>
    /\ nest' = Outer
    /\ UNCHANGED <<here, count, returned, dead, phase>>

(* A program is accepted exactly when it contains no dead code. *)
Judge ==
    /\ phase = "idle"
    /\ phase' = IF dead THEN "rejected" ELSE "accepted"
    /\ UNCHANGED <<nest, here, count, returned, dead>>

Next ==
    \/ Declare
    \/ StartBody
    \/ \E writes \in BOOLEAN : Work(writes)
    \/ Return
    \/ OpenBlock
    \/ CloseBlock
    \/ \E taken \in BOOLEAN : OpenThen(taken)
    \/ OpenElse
    \/ CloseIf
    \/ EndBody
    \/ Abandon
    \/ Leave
    \/ Judge

Spec == Init /\ [][Next]_vars

=============================================================================
