------------------------- MODULE PaymentDeskProofs -------------------------
(* A top-up is applied once, and its status tells so, for any number of        *)
(* documents; the money of a link is what its status says.                    *)
EXTENDS PaymentDesk, TLAPS

\* A call that may still let the provider apply the top-up.
Pot(t, c) == IF pc[t][c] \in {"write", "exec", "submit"} THEN 1 ELSE 0

Executing(t, c) == pc[t][c] \in {"exec", "submit", "complete", "manual"}

\* What a document was paid is settled before anybody works on it.
Settled(d) ==
  /\ status[d] = "none" => payment[d] = "none" /\ ~Busy(d)
  /\ Busy(d) => payment[d] \in {"success", "failure"}

\* Nothing was executed before the order left pending, and only for the buyer's money.
Unexecuted(t) ==
  /\ status[t] \in {"none", "pending"} =>
       applied[t] = 0 /\ \A c \in Calls : pc[t][c] \in {"idle", "write"}
  /\ applied[t] > 0 \/ (\E c \in Calls : Executing(t, c)) => payment[t] = "success"

\* What was applied and what may still be: one, or two for two callbacks.
Bounded(t) ==
  /\ applied[t] + Pot(t, 1) + Pot(t, 2) <= IF t \in twice THEN 2 ELSE 1
  /\ t \notin twice => pc[t][1] = "idle" \/ pc[t][2] = "idle"

\* A top-up alone with its callback is at the place its status and its count say.
InStep(t) ==
  t \notin twice \cup crossed \cup hurt =>
    /\ \A c \in Calls :
         /\ pc[t][c] = "write" => status[t] = "pending"
         /\ pc[t][c] \in {"exec", "submit", "manual"} => status[t] = "paid" /\ applied[t] = 0
         /\ pc[t][c] = "complete" => status[t] = "paid" /\ applied[t] = 1
    /\ ~Busy(t) => applied[t] = IF status[t] = "completed" THEN 1 ELSE 0

Told(l) ==
  l \notin edited =>
    /\ status[l] = "paid" => payment[l] = "success"
    /\ status[l] = "failed" => payment[l] = "failure"

TopupInv(t) == Unexecuted(t) /\ Bounded(t) /\ InStep(t)

DocInv(d) == Settled(d) /\ (d \in Topups => TopupInv(d)) /\ (d \in Links => Told(d))

IInv == TypeOK /\ \A d \in Docs : DocInv(d)

LEMMA InitInv == Init => IInv
<1> SUFFICES ASSUME Init PROVE IInv OBVIOUS
<1> USE DEF Init, Docs, Calls
<1>1. TypeOK
  BY DEF TypeOK
<1>2. ASSUME NEW d \in Docs PROVE DocInv(d)
  <2>1. Settled(d)
    BY DEF Settled, Busy
  <2>2. ASSUME d \in Topups PROVE TopupInv(d)
    BY <2>2 DEF TopupInv, Unexecuted, Bounded, InStep, Pot, Executing, Busy
  <2>3. Told(d)
    BY DEF Told
  <2> QED BY <2>1, <2>2, <2>3 DEF DocInv
<1> QED BY <1>1, <1>2 DEF IInv
-----------------------------------------------------------------------------
LEMMA GotoEffect ==
  ASSUME TypeOK, NEW d \in Docs, NEW c \in Calls, NEW l, Goto(d, c, l)
  PROVE  /\ pc'[d][c] = l
         /\ \A o \in Calls \ {c} : pc'[d][o] = pc[d][o]
         /\ \A e \in Docs \ {d} : pc'[e] = pc[e]
         /\ l \in {"idle", "write", "exec", "submit", "complete", "manual"} =>
              pc' \in [Docs -> [Calls -> {"idle", "write", "exec", "submit", "complete", "manual"}]]
  BY DEF TypeOK, Goto

\* The documents a step does not touch.
LEMMA Untouched ==
  ASSUME NEW d \in Docs, DocInv(d), UNCHANGED <<status[d], payment[d], pc[d]>>,
         d \in Topups => applied'[d] = applied[d],
         d \in twice <=> d \in twice', d \in crossed => d \in crossed',
         d \in hurt => d \in hurt', d \in edited => d \in edited'
  PROVE  DocInv(d)'
<1>1. Settled(d)'
  BY DEF DocInv, Settled, Busy
<1>2. ASSUME d \in Topups PROVE TopupInv(d)'
  <2> USE <1>2 DEF DocInv, TopupInv
  <2>1. Unexecuted(d)'
    BY DEF Unexecuted, Executing
  <2>2. Bounded(d)'
    BY DEF Bounded, Pot
  <2>3. InStep(d)'
    BY DEF InStep, Busy
  <2> QED BY <2>1, <2>2, <2>3
<1>3. d \in Links => Told(d)'
  BY DEF DocInv, Told
<1> QED BY <1>1, <1>2, <1>3 DEF DocInv

LEMMA CreateKeepsInv ==
  ASSUME IInv, NEW d \in Docs,
         (d \in Topups /\ CreateTopup(d)) \/ (d \in Links /\ CreateLink(d))
  PROVE  IInv'
<1> USE DEF CreateTopup, CreateLink, Offered, Set, history
<1>1. TypeOK'
  BY DEF IInv, TypeOK
<1>2. ASSUME NEW e \in Docs \ {d} PROVE DocInv(e)'
  BY <1>2, Untouched DEF IInv, TypeOK
<1>3. /\ status[d] = "none" /\ status'[d] = "pending" /\ payment'[d] = "offered"
      /\ UNCHANGED <<pc, applied, twice, crossed, hurt, edited>>
  BY DEF IInv, TypeOK
<1>4. DocInv(d) /\ ~Busy(d) /\ payment[d] = "none"
  BY <1>3 DEF IInv, DocInv, Settled
<1>5. Settled(d)'
  BY <1>3, <1>4 DEF Settled, Busy
<1>6. ASSUME d \in Topups PROVE TopupInv(d)'
  BY <1>3, <1>4, <1>6
     DEF DocInv, TopupInv, Unexecuted, Bounded, InStep, Executing, Pot, Busy
<1>7. d \in Links => Told(d)'
  BY <1>3 DEF Told
<1> QED BY <1>1, <1>2, <1>5, <1>6, <1>7 DEF IInv, DocInv

LEMMA PayKeepsInv ==
  ASSUME IInv, NEW d \in Docs, Pay(d)
  PROVE  IInv'
<1> USE DEF Pay, history
<1>1. TypeOK'
  BY DEF IInv, TypeOK
<1>2. ASSUME NEW e \in Docs \ {d} PROVE DocInv(e)'
  BY <1>2, Untouched DEF IInv, TypeOK
<1>3. /\ payment[d] = "offered" /\ payment'[d] \in {"success", "failure"}
      /\ UNCHANGED <<status, pc, applied, twice, crossed, hurt, edited>>
  BY DEF IInv, TypeOK
<1>4. DocInv(d) /\ ~Busy(d) /\ status[d] # "none"
  BY <1>3 DEF IInv, DocInv, Settled
<1>5. Settled(d)'
  BY <1>3, <1>4 DEF Settled
<1>6. ASSUME d \in Topups PROVE TopupInv(d)'
  BY <1>3, <1>4, <1>6
     DEF DocInv, TopupInv, Unexecuted, Bounded, InStep, Executing, Pot, Busy
<1>7. d \in Links => Told(d)'
  BY <1>3, <1>4 DEF DocInv, Told
<1> QED BY <1>1, <1>2, <1>5, <1>6, <1>7 DEF IInv, DocInv

LEMMA IpnKeepsInv ==
  ASSUME IInv, NEW d \in Docs, NEW c \in Calls, Ipn(d, c)
  PROVE  IInv'
<1> USE DEF Ipn
<1>0. TypeOK
  BY DEF IInv
<1>1. TypeOK'
  BY <1>0, GotoEffect DEF TypeOK
<1>2. ASSUME NEW e \in Docs \ {d} PROVE DocInv(e)'
  BY <1>0, <1>2, GotoEffect, Untouched DEF IInv, TypeOK
<1>3. /\ pc'[d][c] = "write" /\ pc[d][c] = "idle"
      /\ \A o \in Calls \ {c} : pc'[d][o] = pc[d][o]
      /\ status[d] = "pending" /\ payment[d] \in {"success", "failure"}
      /\ UNCHANGED <<status, payment, applied, crossed, hurt, edited>>
  BY <1>0, GotoEffect
<1>4. DocInv(d)
  BY DEF IInv
<1>5. Settled(d)'
  BY <1>3 DEF Settled
<1>6. ASSUME d \in Topups PROVE TopupInv(d)'
  <2>1. applied[d] = 0 /\ \A o \in Calls : pc[d][o] \in {"idle", "write"}
    BY <1>3, <1>4, <1>6 DEF DocInv, TopupInv, Unexecuted
  <2>2. \A o \in Calls : pc'[d][o] \in {"idle", "write"}
    BY <1>3, <2>1
  <2>3. Unexecuted(d)'
    BY <1>3, <2>1, <2>2 DEF Unexecuted, Executing
  <2>4. Bounded(d)'
    BY <1>3, <2>1, <1>4, <1>6 DEF DocInv, TopupInv, Bounded, Pot, Calls
  <2>5. InStep(d)'
    BY <1>3, <2>2 DEF InStep, Busy
  <2> QED BY <2>3, <2>4, <2>5 DEF TopupInv
<1>7. d \in Links => Told(d)'
  BY <1>3, <1>4 DEF DocInv, Told
<1> QED BY <1>1, <1>2, <1>5, <1>6, <1>7 DEF IInv, DocInv
-----------------------------------------------------------------------------
\* A handler goes on: it knew the payment, and does not go back before a status was written.
LEMMA WriteKeepsInv ==
  ASSUME IInv, NEW d \in Docs, NEW c \in Calls, Write(d, c) \/ WriteGone(d, c)
  PROVE  IInv'
<1>0. TypeOK /\ DocInv(d)
  BY DEF IInv
<1>1. CASE WriteGone(d, c)
  <2> USE <1>1 DEF WriteGone, history
  <2>1. TypeOK'
    BY <1>0, GotoEffect DEF TypeOK
  <2>2. ASSUME NEW e \in Docs \ {d} PROVE DocInv(e)'
    BY <1>0, <2>2, GotoEffect, Untouched DEF IInv, TypeOK
  <2>3. /\ pc'[d][c] = "idle" /\ pc[d][c] = "write" /\ status[d] = "gone"
        /\ \A o \in Calls \ {c} : pc'[d][o] = pc[d][o]
        /\ UNCHANGED <<status, payment, applied, twice, crossed, hurt, edited>>
    BY <1>0, GotoEffect
  <2>4. Settled(d)'
    BY <1>0, <2>3 DEF DocInv, Settled, Busy
  <2>5. ASSUME d \in Topups PROVE TopupInv(d)'
    <3> USE <1>0, <2>3, <2>5 DEF DocInv, TopupInv
    <3>1. Unexecuted(d)'
      BY DEF Unexecuted, Executing
    <3>2. Bounded(d)'
      BY DEF Bounded, Pot, Calls, TypeOK
    <3>3. InStep(d)'
      BY DEF InStep, Busy
    <3> QED BY <3>1, <3>2, <3>3
  <2>6. d \in Links => Told(d)'
    BY <1>0, <2>3 DEF DocInv, Told
  <2> QED BY <2>1, <2>2, <2>4, <2>5, <2>6 DEF IInv, DocInv
<1>2. CASE Write(d, c)
  <2> USE <1>2 DEF Write, Set
  <2>0. Outcome(d) \in {"paid", "failed"}
    BY DEF Outcome
  <2>1. TypeOK'
    BY <1>0, <2>0, GotoEffect DEF TypeOK
  <2>2. ASSUME NEW e \in Docs \ {d} PROVE DocInv(e)'
    BY <1>0, <2>2, GotoEffect, Untouched DEF IInv, TypeOK
  <2>3. /\ pc'[d][c] = IF d \in Topups /\ Outcome(d) = "paid" THEN "exec" ELSE "idle"
        /\ pc[d][c] = "write" /\ status'[d] = Outcome(d)
        /\ \A o \in Calls \ {c} : pc'[d][o] = pc[d][o]
        /\ UNCHANGED <<payment, applied, twice, hurt, edited>>
    BY <1>0, GotoEffect DEF TypeOK
  <2>4. payment[d] \in {"success", "failure"} /\ (Outcome(d) = "paid" <=> payment[d] = "success")
    BY <1>0, <2>3 DEF DocInv, Settled, Busy, Outcome
  <2>5. Settled(d)'
    BY <2>0, <2>3, <2>4 DEF Settled
  <2>6. ASSUME d \in Topups PROVE TopupInv(d)'
    <3> USE <1>0, <2>0, <2>3, <2>4, <2>6 DEF DocInv, TopupInv
    <3>1. Unexecuted(d)'
      BY DEF Unexecuted, Executing, TypeOK
    <3>2. Bounded(d)'
      BY DEF Bounded, Pot, Calls, TypeOK
    <3>3. ASSUME d \notin (twice \cup crossed \cup hurt)' PROVE InStep(d)'
      <4>1. d \notin twice \cup crossed \cup hurt /\ status[d] = "pending"
        BY <3>3
      <4>2. applied[d] = 0 /\ \A o \in Calls \ {c} : pc[d][o] = "idle"
        BY <4>1 DEF Unexecuted, Bounded, Calls
      <4> QED BY <4>1, <4>2 DEF InStep, Busy
    <3> QED BY <3>1, <3>2, <3>3 DEF InStep
  <2>7. d \in Links => Told(d)'
    BY <2>0, <2>3, <2>4 DEF Told
  <2> QED BY <2>1, <2>2, <2>5, <2>6, <2>7 DEF IInv, DocInv
<1> QED BY <1>1, <1>2
-----------------------------------------------------------------------------
\* Steps of one call on a top-up, its row and its count.
LEMMA TopupStep ==
  ASSUME IInv, TypeOK', NEW t \in Topups, NEW c \in Calls, NEW l, Goto(t, c, l),
         pc[t][c] # "idle", UNCHANGED <<payment, twice, edited>>,
         \A e \in Docs \ {t} : status'[e] = status[e],
         \A e \in Topups \ {t} : applied'[e] = applied[e],
         crossed \subseteq crossed', hurt \subseteq hurt',
         status'[t] # "none", TopupInv(t)'
  PROVE  IInv'
<1>0. t \in Docs /\ TypeOK
  BY DEF Docs, IInv
<1>1. ASSUME NEW e \in Docs \ {t} PROVE DocInv(e)'
  BY <1>0, <1>1, GotoEffect, Untouched DEF IInv
<1>2. Settled(t)'
  BY <1>0 DEF IInv, DocInv, Settled, Busy
<1>3. t \notin Links
  BY DeskAssumption
<1> QED BY <1>0, <1>1, <1>2, <1>3 DEF IInv, DocInv

LEMMA ExecuteKeepsInv ==
  ASSUME IInv, NEW t \in Topups, NEW c \in Calls, Execute(t, c)
  PROVE  IInv'
<1> USE DEF Execute, history
<1>0. t \in Docs /\ TypeOK /\ TopupInv(t) /\ Settled(t)
  BY DEF Docs, IInv, DocInv
<1>1. TypeOK'
  BY <1>0, GotoEffect DEF TypeOK
<1>2. /\ pc'[t][c] = IF status[t] \in {"completed", "manual"} THEN "idle" ELSE "submit"
      /\ pc[t][c] = "exec" /\ \A o \in Calls \ {c} : pc'[t][o] = pc[t][o]
      /\ UNCHANGED <<status, payment, applied, twice, crossed, hurt>>
  BY <1>0, GotoEffect
<1>3. Unexecuted(t)'
  BY <1>0, <1>2 DEF TopupInv, Unexecuted, Executing
<1>4. Bounded(t)'
  BY <1>0, <1>2 DEF TopupInv, Bounded, Pot, Calls, TypeOK
<1>5. InStep(t)'
  BY <1>0, <1>2 DEF TopupInv, InStep, Busy
<1>6. status[t] # "none"
  BY <1>0, <1>2 DEF Settled, Busy
<1> QED BY <1>1, <1>2, <1>3, <1>4, <1>5, <1>6, TopupStep DEF TopupInv

LEMMA SubmitKeepsInv ==
  ASSUME IInv, NEW t \in Topups, NEW c \in Calls, Submit(t, c)
  PROVE  IInv'
<1> USE DEF Submit, history, Apply, Fault
<1>0. t \in Docs /\ TypeOK /\ TopupInv(t) /\ Settled(t)
  BY DEF Docs, IInv, DocInv
<1>1. PICK l \in {"complete", "manual"} : Goto(t, c, l)
  OBVIOUS
<1>2. TypeOK'
  <2>1. applied' \in [Topups -> Nat] /\ hurt' \subseteq Docs
    BY <1>0 DEF TypeOK
  <2> QED BY <1>0, <1>1, <2>1, GotoEffect DEF TypeOK
<1>3. /\ pc'[t][c] = l /\ pc[t][c] = "submit"
      /\ \A o \in Calls \ {c} : pc'[t][o] = pc[t][o]
      /\ UNCHANGED <<status, payment, twice, crossed, edited>> /\ hurt \subseteq hurt'
      /\ \A e \in Topups \ {t} : applied'[e] = applied[e]
  BY <1>0, <1>1, GotoEffect DEF TypeOK
<1>4. \/ applied'[t] = applied[t] + 1 /\ (l = "complete" \/ t \in hurt')
      \/ applied'[t] = applied[t] /\ l = "manual"
  <2>1. pc'[t][c] = l
    BY <1>3
  <2> QED BY <1>0, <2>1, GotoEffect DEF TypeOK
<1>5. Unexecuted(t)'
  BY <1>0, <1>3, <1>4 DEF TopupInv, Unexecuted, Executing
<1>6. Bounded(t)'
  BY <1>0, <1>3, <1>4 DEF TopupInv, Bounded, Pot, Calls, TypeOK
<1>7. InStep(t)'
  <2> SUFFICES ASSUME t \notin (twice \cup crossed \cup hurt)' PROVE InStep(t)'
    BY DEF InStep
  <2>1. status[t] = "paid" /\ applied[t] = 0 /\ \A o \in Calls \ {c} : pc[t][o] = "idle"
    BY <1>0, <1>3 DEF TopupInv, InStep, Bounded, Calls
  <2> QED BY <1>3, <1>4, <2>1 DEF InStep, Busy
<1>8. status[t] # "none"
  BY <1>0, <1>3 DEF Settled, Busy
<1> QED BY <1>1, <1>2, <1>3, <1>5, <1>6, <1>7, <1>8, TopupStep DEF TopupInv

LEMMA CompleteKeepsInv ==
  ASSUME IInv, NEW t \in Topups, NEW c \in Calls, Complete(t, c) \/ Manual(t, c)
  PROVE  IInv'
<1> USE DEF Complete, Manual, Fault, Set, Crossed
<1>0. t \in Docs /\ TypeOK /\ TopupInv(t) /\ Settled(t)
  BY DEF Docs, IInv, DocInv
<1>1. PICK l \in {"idle", "manual"} : Goto(t, c, l)
  OBVIOUS
<1>2. TypeOK'
  <2>1. /\ status' \in [Docs -> {"none", "pending", "paid", "failed", "completed", "manual",
                                "refunded", "gone"}]
        /\ hurt' \subseteq Docs /\ crossed' \subseteq Docs
    BY <1>0 DEF TypeOK
  <2> QED BY <1>0, <1>1, <2>1, GotoEffect DEF TypeOK
<1>3. /\ pc'[t][c] = l /\ pc[t][c] \in {"complete", "manual"}
      /\ \A o \in Calls \ {c} : pc'[t][o] = pc[t][o]
      /\ UNCHANGED <<payment, applied, twice, edited>>
      /\ hurt \subseteq hurt' /\ crossed \subseteq crossed'
      /\ \A e \in Docs \ {t} : status'[e] = status[e]
  BY <1>0, <1>1, GotoEffect DEF TypeOK
<1>4. \/ status'[t] = "completed" /\ pc[t][c] = "complete" /\ l = "idle"
      \/ status'[t] = "manual" /\ pc[t][c] = "manual" /\ l = "idle"
      \/ status'[t] = status[t] /\ t \in hurt'
  <2>1. pc'[t][c] = l
    BY <1>3
  <2> QED BY <1>0, <2>1, GotoEffect DEF TypeOK
<1>5. status[t] \notin {"none", "pending"} /\ status'[t] \notin {"none", "pending"}
  BY <1>0, <1>3, <1>4 DEF TopupInv, Unexecuted
<1>6. Unexecuted(t)'
  BY <1>0, <1>3, <1>5 DEF TopupInv, Unexecuted, Executing
<1>7. Bounded(t)'
  BY <1>0, <1>3 DEF TopupInv, Bounded, Pot, Calls, TypeOK
<1>8. InStep(t)'
  <2> SUFFICES ASSUME t \notin (twice \cup crossed \cup hurt)' PROVE InStep(t)'
    BY DEF InStep
  <2>1. \A o \in Calls \ {c} : pc[t][o] = "idle"
    BY <1>0, <1>3 DEF TopupInv, Bounded, Calls
  <2>2. applied[t] = IF pc[t][c] = "complete" THEN 1 ELSE 0
    BY <1>0, <1>3 DEF TopupInv, InStep
  <2> QED BY <1>3, <1>4, <2>1, <2>2 DEF InStep, Busy
<1> QED BY <1>1, <1>2, <1>3, <1>5, <1>6, <1>7, <1>8, TopupStep DEF TopupInv

LEMMA StopKeepsInv ==
  ASSUME IInv, NEW d \in Docs, NEW c \in Calls, Stop(d, c)
  PROVE  IInv'
<1> USE DEF Stop, Fault, history
<1>0. TypeOK /\ DocInv(d)
  BY DEF IInv
<1>1. TypeOK'
  <2>1. hurt' \subseteq Docs
    BY <1>0 DEF TypeOK
  <2> QED BY <1>0, <2>1, GotoEffect DEF TypeOK
<1>2. ASSUME NEW e \in Docs \ {d} PROVE DocInv(e)'
  BY <1>0, <1>2, GotoEffect, Untouched DEF IInv, TypeOK
<1>3. /\ pc'[d][c] = "idle" /\ pc[d][c] # "idle"
      /\ \A o \in Calls \ {c} : pc'[d][o] = pc[d][o]
      /\ d \in hurt' /\ UNCHANGED <<status, payment, applied, twice, crossed, edited>>
  BY <1>0, GotoEffect
<1>4. Settled(d)'
  BY <1>0, <1>3 DEF DocInv, Settled, Busy
<1>5. ASSUME d \in Topups PROVE TopupInv(d)'
  <2> USE <1>0, <1>3, <1>5 DEF DocInv, TopupInv
  <2>1. Unexecuted(d)'
    BY DEF Unexecuted, Executing
  <2>2. Bounded(d)'
    BY DEF Bounded, Pot, Calls, TypeOK
  <2> QED BY <2>1, <2>2 DEF InStep
<1>6. d \in Links => Told(d)'
  BY <1>0, <1>3 DEF DocInv, Told
<1> QED BY <1>1, <1>2, <1>4, <1>5, <1>6 DEF IInv, DocInv
-----------------------------------------------------------------------------
LEMMA CloseKeepsInv ==
  ASSUME IInv, NEW t \in Topups, Cancel(t) \/ Refund(t)
  PROVE  IInv'
<1> USE DEF Cancel, Refund, Close, history
<1>1. TypeOK'
  BY DEF IInv, TypeOK
<1>2. ASSUME NEW e \in Docs PROVE DocInv(e)'
  BY Untouched DEF IInv
<1> QED BY <1>1, <1>2 DEF IInv

LEMMA CloseWriteKeepsInv ==
  ASSUME IInv, NEW t \in Topups, CloseWrite(t)
  PROVE  IInv'
<1> USE DEF CloseWrite, Set
<1>0. t \in Docs /\ TypeOK /\ TopupInv(t) /\ Settled(t)
  BY DEF Docs, IInv, DocInv
<1>1. TypeOK'
  BY <1>0 DEF TypeOK
<1>2. ASSUME NEW e \in Docs \ {t} PROVE DocInv(e)'
  BY <1>0, <1>2, Untouched DEF IInv, TypeOK
<1>3. /\ status'[t] \in {"failed", "refunded"} /\ crossed \subseteq crossed'
      /\ UNCHANGED <<payment, pc, applied, twice, hurt, edited>>
  BY <1>0 DEF TypeOK
<1>4. Settled(t)'
  BY <1>0, <1>3 DEF Settled, Busy
<1>5. Unexecuted(t)'
  BY <1>0, <1>3 DEF TopupInv, Unexecuted, Executing
<1>6. Bounded(t)'
  BY <1>0, <1>3 DEF TopupInv, Bounded, Pot
<1>7. InStep(t)'
  <2> SUFFICES ASSUME t \notin (twice \cup crossed \cup hurt)' PROVE InStep(t)'
    BY DEF InStep
  <2>1. ~Busy(t) /\ status[t] # "completed"
    OBVIOUS
  <2>2. applied[t] = 0
    BY <1>0, <1>3, <2>1 DEF TopupInv, InStep
  <2> QED BY <1>3, <2>1, <2>2 DEF InStep, Busy
<1>8. t \notin Links
  BY DeskAssumption
<1> QED BY <1>1, <1>2, <1>4, <1>5, <1>6, <1>7, <1>8 DEF IInv, DocInv, TopupInv

LEMMA EditKeepsInv ==
  ASSUME IInv, NEW l \in Links, Edit(l)
  PROVE  IInv'
<1> USE DEF Edit, Set
<1>0. l \in Docs /\ TypeOK /\ Settled(l) /\ l \notin Topups
  BY DeskAssumption DEF Docs, IInv, DocInv
<1>1. TypeOK'
  BY <1>0 DEF TypeOK
<1>2. ASSUME NEW e \in Docs \ {l} PROVE DocInv(e)'
  BY <1>0, <1>2, Untouched DEF IInv, TypeOK
<1>3. Settled(l)'
  BY <1>0 DEF Settled, Busy, TypeOK
<1>4. Told(l)'
  BY DEF Told
<1> QED BY <1>0, <1>1, <1>2, <1>3, <1>4 DEF IInv, DocInv
-----------------------------------------------------------------------------
LEMMA NextKeepsInv == IInv /\ [Next]_vars => IInv'
<1> SUFFICES ASSUME IInv, [Next]_vars PROVE IInv' OBVIOUS
<1>1. CASE UNCHANGED vars
  <2>1. TypeOK'
    BY <1>1 DEF IInv, TypeOK, vars, history
  <2>2. ASSUME NEW d \in Docs PROVE DocInv(d)'
    BY <1>1, Untouched DEF IInv, vars, history
  <2> QED BY <2>1, <2>2 DEF IInv
<1>2. ASSUME NEW d \in Docs, Pay(d) PROVE IInv'
  BY <1>2, PayKeepsInv
<1>3. ASSUME NEW d \in Docs, NEW c \in Calls, Ipn(d, c) \/ Work(d, c) \/ Stop(d, c) PROVE IInv'
  BY <1>3, IpnKeepsInv, WriteKeepsInv, ExecuteKeepsInv, SubmitKeepsInv, CompleteKeepsInv,
     StopKeepsInv DEF Work
<1>4. ASSUME NEW t \in Topups, CreateTopup(t) \/ Cancel(t) \/ Refund(t) \/ CloseWrite(t)
      PROVE  IInv'
  <2>1. t \in Docs
    BY DEF Docs
  <2> QED BY <1>4, <2>1, CreateKeepsInv, CloseKeepsInv, CloseWriteKeepsInv
<1>5. ASSUME NEW l \in Links, CreateLink(l) \/ Edit(l) PROVE IInv'
  <2>1. l \in Docs
    BY DEF Docs
  <2> QED BY <1>5, <2>1, CreateKeepsInv, EditKeepsInv
<1> QED BY <1>1, <1>2, <1>3, <1>4, <1>5 DEF Next

\* For any number of top-ups and links, and whatever callbacks, cancellations, refunds,
\* edits and faults interleave, the invariant holds.
THEOREM DeskInvariant == Spec => []IInv
  BY InitInv, NextKeepsInv, PTL DEF Spec

\* Every variable keeps its type.
THEOREM DeskTypes == Spec => []TypeOK
<1>1. IInv => TypeOK
  BY DEF IInv
<1> QED BY <1>1, DeskInvariant, PTL

\* The provider applies a top-up for the buyer's money only, and at most once unless two
\* callbacks read the order while it was pending.
THEOREM ToppedUpOnce == Spec => []AppliedOnce
<1>1. IInv => AppliedOnce
  <2> SUFFICES ASSUME IInv, NEW t \in Topups
               PROVE  /\ applied[t] > 0 => payment[t] = "success"
                      /\ applied[t] <= IF t \in twice THEN 2 ELSE 1
    BY DEF AppliedOnce
  <2>1. TopupInv(t) /\ applied[t] \in Nat
    BY DEF IInv, DocInv, Docs, TypeOK
  <2>2. Pot(t, 1) \in {0, 1} /\ Pot(t, 2) \in {0, 1}
    BY DEF Pot
  <2> QED BY <2>1, <2>2 DEF TopupInv, Unexecuted, Bounded
<1> QED BY <1>1, DeskInvariant, PTL

\* A status says whether the top-up was applied, or the link paid, once nobody is at work on
\* it and nothing overlapped.
THEOREM StatusIsTold == Spec => []StatusTells
<1>1. IInv => StatusTells
  <2> SUFFICES ASSUME IInv PROVE StatusTells OBVIOUS
  <2>1. ASSUME NEW t \in Topups \ (twice \cup crossed \cup hurt), ~Busy(t)
        PROVE  applied[t] = IF status[t] = "completed" THEN 1 ELSE 0
    BY <2>1 DEF IInv, DocInv, TopupInv, InStep, Docs
  <2>2. ASSUME NEW l \in Links \ edited
        PROVE  /\ status[l] = "paid" => payment[l] = "success"
               /\ status[l] = "failed" => payment[l] = "failure"
    BY <2>2 DEF IInv, DocInv, Told, Docs
  <2> QED BY <2>1, <2>2 DEF StatusTells
<1> QED BY <1>1, DeskInvariant, PTL
=============================================================================
