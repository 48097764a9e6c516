---------------------------- MODULE PaymentDesk ----------------------------
(***************************************************************************)
(* What OnePay's callback finds behind its prefixes: top-ups (TOPUP-), whose  *)
(* provider is asked in the background after the callback was answered, and    *)
(* custom payment links (VORD-), which only record the outcome. Orders        *)
(* without a prefix are OrderLifecycle.                                      *)
(*                                                                         *)
(* Every statement that reads or writes a row is an action. A callback is      *)
(* repeated until it is acknowledged, and may come twice at the same time.     *)
(***************************************************************************)
EXTENDS Integers, FiniteSets

CONSTANTS
  Topups,     \* top-up orders
  Links,      \* custom payment links
  MaxFaults,  \* bound: documents a fault may hit
  MaxEdits    \* bound: links an admin edits

Docs == Topups \cup Links
Calls == 1..2  \* callbacks of one document under way at a time

ASSUME DeskAssumption ==
  /\ Topups \cap Links = {}
  /\ MaxFaults \in Nat /\ MaxEdits \in Nat

VARIABLES
  status,     \* of the order row or of the link; "gone" when it was removed
  payment,    \* what OnePay knows of it
  pc,         \* the callbacks, and what they leave running, by document and call
  closer,     \* the cancel, expiry or refund of a top-up between its read and its write
  applied,    \* how often the provider applied a top-up
  twice,      \* history: documents of which two callbacks read pending
  crossed,    \* history: closed while a callback was at work, or the reverse
  late,       \* history: top-ups that were closed before their callback
  edited,     \* history: links an admin changed or removed
  hurt        \* history: documents a fault hit

history == <<twice, crossed, late, edited>>
vars == <<status, payment, pc, closer, applied, history, hurt>>

Init ==
  /\ status = [d \in Docs |-> "none"]
  /\ payment = [d \in Docs |-> "none"]
  /\ pc = [d \in Docs |-> [c \in Calls |-> "idle"]]
  /\ closer = [t \in Topups |-> "idle"]
  /\ applied = [t \in Topups |-> 0]
  /\ twice = {} /\ crossed = {} /\ late = {} /\ edited = {} /\ hurt = {}

Goto(d, c, l) == pc' = [pc EXCEPT ![d][c] = l]
Busy(d) == \E c \in Calls : pc[d][c] # "idle"
Fault(d) == (Cardinality(hurt) < MaxFaults \/ d \in hurt) /\ hurt' = hurt \cup {d}
Set(d, s) == status' = [status EXCEPT ![d] = s]
-----------------------------------------------------------------------------
\* The URL at OnePay. A link's is made before its row is written, which shows nowhere:
\* it is in nobody's hands yet.
Offered(d) == payment' = [payment EXCEPT ![d] = "offered"]

\* TopupService.checkout: the provider is not asked before the order is paid.
CreateTopup(t) ==
  /\ status[t] = "none"
  /\ Set(t, "pending") /\ Offered(t)
  /\ UNCHANGED <<pc, closer, applied, history, hurt>>

CreateLink(l) ==
  /\ status[l] = "none"
  /\ Set(l, "pending") /\ Offered(l)
  /\ UNCHANGED <<pc, closer, applied, history, hurt>>

Pay(d) ==
  /\ payment[d] = "offered"
  /\ \E outcome \in {"success", "failure"} : payment' = [payment EXCEPT ![d] = outcome]
  /\ UNCHANGED <<status, pc, closer, applied, history, hurt>>

\* Mutant: what is not completed is handled again.
IpnAgain(d, c) ==
  /\ payment[d] \in {"success", "failure"}
  /\ status[d] \in {"pending", "paid"} /\ pc[d][c] = "idle"
  /\ Goto(d, c, "write")
  /\ twice' = IF \E o \in Calls : pc[d][o] = "write" THEN twice \cup {d} ELSE twice
  /\ UNCHANGED <<status, payment, closer, applied, crossed, late, edited, hurt>>

\* A callback of a document that is not pending is acknowledged, and changes nothing.
Ipn(d, c) ==
  /\ payment[d] \in {"success", "failure"}
  /\ status[d] = "pending" /\ pc[d][c] = "idle"
  /\ Goto(d, c, "write")
  /\ twice' = IF \E o \in Calls : pc[d][o] = "write" THEN twice \cup {d} ELSE twice
  /\ UNCHANGED <<status, payment, closer, applied, crossed, late, edited, hurt>>

Outcome(d) == IF payment[d] = "success" THEN "paid" ELSE "failed"

\* The row is saved; a paid top-up goes on in the background.
Write(d, c) ==
  /\ pc[d][c] = "write" /\ status[d] # "gone"
  /\ Set(d, Outcome(d))
  /\ Goto(d, c, IF d \in Topups /\ Outcome(d) = "paid" THEN "exec" ELSE "idle")
  /\ crossed' = IF status[d] # "pending" \/ (d \in Topups /\ closer[d] # "idle")
                THEN crossed \cup {d} ELSE crossed
  /\ UNCHANGED <<payment, closer, applied, twice, late, edited, hurt>>

\* Record not found: update throws, and so does every repeated callback: code 01.
WriteGone(d, c) ==
  /\ pc[d][c] = "write" /\ status[d] = "gone"
  /\ Goto(d, c, "idle")
  /\ UNCHANGED <<status, payment, closer, applied, history, hurt>>
-----------------------------------------------------------------------------
(* executeTopup.                                                            *)

\* It does not insist that the order is still paid.
Execute(t, c) ==
  /\ pc[t][c] = "exec"
  /\ Goto(t, c, IF status[t] \in {"completed", "manual"} THEN "idle" ELSE "submit")
  /\ UNCHANGED <<status, payment, closer, applied, history, hurt>>

Apply(t) == applied' = [applied EXCEPT ![t] = @ + 1]

\* Mutant: what the provider refuses is not noticed.
SubmitUnchecked(t, c) ==
  /\ pc[t][c] = "submit"
  /\ Apply(t) \/ UNCHANGED applied
  /\ Goto(t, c, "complete")
  /\ UNCHANGED <<status, payment, closer, history, hurt>>

\* The provider applies the top-up, refuses it (or is not asked: an eSIM of Gadget Korea
\* without topupId), or its answer is lost on the way.
Submit(t, c) ==
  /\ pc[t][c] = "submit"
  /\ \/ Apply(t) /\ Goto(t, c, "complete") /\ UNCHANGED hurt
     \/ UNCHANGED applied /\ Goto(t, c, "manual") /\ UNCHANGED hurt
     \/ Apply(t) /\ Goto(t, c, "manual") /\ Fault(t)
  /\ UNCHANGED <<status, payment, closer, history>>

Crossed(t) == crossed' = IF closer[t] # "idle" \/ status[t] # "paid"
                         THEN crossed \cup {t} ELSE crossed

\* An error of this update lands in the catch of the submission.
Complete(t, c) ==
  /\ pc[t][c] = "complete"
  /\ \/ Set(t, "completed") /\ Goto(t, c, "idle") /\ Crossed(t) /\ UNCHANGED hurt
     \/ Goto(t, c, "manual") /\ Fault(t) /\ UNCHANGED <<status, crossed>>
  /\ UNCHANGED <<payment, closer, applied, twice, late, edited>>

\* Mutant: a failed top-up looks like one that was not paid.
ManualFails(t, c) ==
  /\ pc[t][c] = "manual"
  /\ Set(t, "failed") /\ Goto(t, c, "idle") /\ Crossed(t)
  /\ UNCHANGED <<payment, closer, applied, twice, late, edited, hurt>>

\* markManualIntervention logs its own failure.
Manual(t, c) ==
  /\ pc[t][c] = "manual"
  /\ \/ Set(t, "manual") /\ Crossed(t) /\ UNCHANGED hurt
     \/ Fault(t) /\ UNCHANGED <<status, crossed>>
  /\ Goto(t, c, "idle")
  /\ UNCHANGED <<payment, closer, applied, twice, late, edited>>

\* The process stops: the callback and what it left running are gone.
Stop(d, c) ==
  /\ pc[d][c] # "idle"
  /\ Fault(d)
  /\ Goto(d, c, "idle")
  /\ UNCHANGED <<status, payment, closer, applied, history>>
-----------------------------------------------------------------------------
(* The other handlers of a top-up's order, and of a link.                    *)

Close(t, l) ==
  /\ closer[t] = "idle"
  /\ closer' = [closer EXCEPT ![t] = l]
  /\ UNCHANGED <<status, payment, pc, applied, history, hurt>>

\* cancelOrder and failExpiredPendingOrders read, then write by id. Neither looks at
\* the type of the order.
Cancel(t) == status[t] = "pending" /\ Close(t, "failed")

\* refundOrder, in full.
Refund(t) == status[t] \in {"paid", "refunded"} /\ Close(t, "refunded")

CloseWrite(t) ==
  /\ closer[t] # "idle"
  /\ Set(t, closer[t])
  /\ closer' = [closer EXCEPT ![t] = "idle"]
  /\ crossed' = IF Busy(t) \/ status[t] \notin {"pending", "paid", "refunded"}
                     \/ (status[t] = "paid" /\ closer[t] = "failed")
                THEN crossed \cup {t} ELSE crossed
  /\ late' = late \cup {t}
  /\ UNCHANGED <<payment, pc, applied, twice, edited, hurt>>

\* An admin edits a link as a whole, or removes it.
Edit(l) ==
  /\ status[l] \notin {"none", "gone"} /\ Cardinality(edited \cup {l}) <= MaxEdits
  /\ \E s \in {"pending", "paid", "failed", "gone"} : Set(l, s)
  /\ edited' = edited \cup {l}
  /\ UNCHANGED <<payment, pc, closer, applied, twice, crossed, late, hurt>>
-----------------------------------------------------------------------------
Work(d, c) ==
  \/ Write(d, c) \/ WriteGone(d, c)
  \/ d \in Topups /\ (Execute(d, c) \/ Submit(d, c) \/ Complete(d, c) \/ Manual(d, c))

Next ==
  \/ \E d \in Docs : Pay(d)
  \/ \E d \in Docs, c \in Calls : Ipn(d, c) \/ Work(d, c) \/ Stop(d, c)
  \/ \E t \in Topups : CreateTopup(t) \/ Cancel(t) \/ Refund(t) \/ CloseWrite(t)
  \/ \E l \in Links : CreateLink(l) \/ Edit(l)

Spec == Init /\ [][Next]_vars

\* OnePay repeats its callback, and started handlers go on.
Fairness ==
  \A d \in Docs : /\ WF_vars(\E c \in Calls : Ipn(d, c))
                  /\ \A c \in Calls : WF_vars(Work(d, c))

FairSpec == Spec /\ Fairness
-----------------------------------------------------------------------------
\* Every variable has its type.
TypeOK ==
  /\ status \in [Docs -> {"none", "pending", "paid", "failed", "completed", "manual",
                          "refunded", "gone"}]
  /\ payment \in [Docs -> {"none", "offered", "success", "failure"}]
  /\ pc \in [Docs -> [Calls -> {"idle", "write", "exec", "submit", "complete", "manual"}]]
  /\ closer \in [Topups -> {"idle", "failed", "refunded"}]
  /\ applied \in [Topups -> Nat]
  /\ twice \subseteq Docs /\ crossed \subseteq Docs /\ hurt \subseteq Docs
  /\ late \subseteq Topups /\ edited \subseteq Links

\* A top-up is applied for the buyer's money only, and at most once unless two callbacks
\* found the order pending together.
AppliedOnce ==
  \A t \in Topups :
    /\ applied[t] > 0 => payment[t] = "success"
    /\ applied[t] <= IF t \in twice THEN 2 ELSE 1

\* Once no handler is at work on it, the status of a top-up tells what became of it:
\* applied when completed, and not when an admin has to retry or refund it, or when it
\* failed or was refunded; excepted are overlapping handlers and faults. A link nobody
\* edited tells the outcome of its payment.
StatusTells ==
  /\ \A t \in Topups \ (twice \cup crossed \cup hurt) :
       ~Busy(t) => applied[t] = IF status[t] = "completed" THEN 1 ELSE 0
  /\ \A l \in Links \ edited :
       /\ status[l] = "paid" => payment[l] = "success"
       /\ status[l] = "failed" => payment[l] = "failure"

\* The buyer's money settles the document: a link is paid, and a top-up completed or
\* handed to an admin, unless the top-up was closed before, the link edited, or a fault
\* came in between.
MoneySettles ==
  \A d \in Docs :
    payment[d] = "success"
      ~> \/ d \in late \cup edited \cup hurt
         \/ status[d] \in IF d \in Links THEN {"paid"} ELSE {"completed", "manual"}
=============================================================================
