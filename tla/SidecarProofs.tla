------------------------------ MODULE SidecarProofs -----------------------------
(***************************************************************************)
(* Theorems about Sidecar, for any calls and settings.                     *)
(***************************************************************************)
EXTENDS Sidecar, SequenceLemmas, TLAPS

USE CallsAssumption, LimitsAssumption

(***************************************************************************)
(* The invariant.  TypeOK without the line is inductive by itself, and the *)
(* three other parts need nothing else.                                    *)
(***************************************************************************)
Stage == {"travelling", "running", "unheard"} \cup Answer
Waiting == Served \cup {"queued"}

Typed ==
    /\ now \in Nat
    /\ revoked = {} \/ \E t \in 0 .. now : revoked = {t}
    /\ cached = {} \/ \E t \in 0 .. now + CacheTTL : cached = {t}
    /\ plan \in [state : {"pending", "approved", "executed"}, by : Call \cup {Nobody}]
    /\ plan.state = "executed" <=> plan.by # Nobody
    /\ pc \in [Call -> Step]
    /\ asked \in [Call -> 0 .. now]
    /\ identity \in [Call -> {"awaited", "valid", "invalid"}]
    /\ work \in [Call -> Seq(Stage)]
    /\ told \in [Call -> Told]
    /\ later \subseteq Call /\ safe \subseteq Call
    /\ \A c \in Call : pc[c] = "done" <=> told[c] # "nothing"

\* A call is in the line once, and who is served is the first.
LineInv ==
    /\ line \in [{User} -> Seq(Call)]
    /\ \A c \in Call : pc[c] \in Served => line[User] # <<>> /\ c = Head(line[User])
    /\ \A c \in Call : InLine(c) <=> pc[c] \in Waiting
    /\ \A i, j \in DOMAIN line[User] : line[User][i] = line[User][j] => i = j

\* What Odoo confirms and what the cache holds was asked before the key was
\* withdrawn.
KeyInv ==
    /\ \A c \in Call : pc[c] # "asking" => identity[c] = "awaited"
    /\ \A r \in revoked :
          /\ \A t \in cached : t <= r + RequestTimeout + CacheTTL
          /\ \A c \in Call : identity[c] = "valid" => asked[c] <= r

\* A call that changes something is sent once, and is told refused only if
\* that was the answer, or if it has never been sent.  An answer about the plan
\* stays true; who knows of the execution is never answered the contrary.
CallInv(c) ==
    /\ c \notin safe => Len(work[c]) <= 1 /\ pc[c] # "delay"
    /\ pc[c] \in {"new", "asking", "accepted", "queued"} => work[c] = <<>>
    /\ pc[c] \in Served => work[c] # <<>>
    /\ plan.by = c => /\ c \notin safe /\ Len(work[c]) = 1
                      /\ work[c][1] \in {"executed", "unclear", "unheard"}
    /\ \A n \in DOMAIN work[c] : work[c][n] = "executed" => plan.state = "executed"
    /\ told[c] = "executed" => plan.state = "executed"
    /\ told[c] \in {"refused", "not_executed"} /\ c \notin safe =>
          \A n \in DOMAIN work[c] : work[c][n] \in {"refused", "not_executed"}
    /\ c \in later => /\ plan.state = "executed" /\ told[c] # "not_executed"
                      /\ \A n \in DOMAIN work[c] : work[c][n] # "not_executed"

Inv == Typed /\ LineInv /\ KeyInv /\ \A c \in Call : CallInv(c)

LEMMA InvInit ==
    ASSUME Init
    PROVE  Inv
<1>1. Typed
  BY DEF Init, Typed, Step, Told
<1>2. LineInv
  BY DEF Init, Line!Init, LineInv, Served, Waiting, InLine
<1>3. KeyInv
  BY DEF Init, KeyInv
<1>4. ASSUME NEW c \in Call
      PROVE  CallInv(c)
  BY DEF Init, CallInv, Served
<1> QED
  BY <1>1, <1>2, <1>3, <1>4 DEF Inv

(***************************************************************************)
(* Types.                                                                  *)
(***************************************************************************)
\* The end of a call.
LEMMA TellsTyped ==
    ASSUME Typed, NEW c \in Call, NEW what \in Told \ {"nothing"}, Tells(c, what)
    PROVE  /\ pc' \in [Call -> Step] /\ told' \in [Call -> Told]
           /\ \A d \in Call : pc'[d] = "done" <=> told'[d] # "nothing"
  BY DEF Typed, Tells, Goes, Step, Told

\* Any other step of a call.
LEMMA GoesTyped ==
    ASSUME Typed, NEW c \in Call, NEW step \in Step \ {"done"}, Goes(c, step),
           pc[c] # "done", told' = told
    PROVE  /\ pc' \in [Call -> Step] /\ told' \in [Call -> Told]
           /\ \A d \in Call : pc'[d] = "done" <=> told'[d] # "nothing"
  BY DEF Typed, Goes, Step, Told

LEMMA EndsTyped ==
    ASSUME Typed, NEW c \in Call, NEW what \in Told \ {"nothing"}, Ends(c, what)
    PROVE  Typed'
<1>1. Tells(c, what) /\ UNCHANGED <<now, revoked, cached, plan, asked, identity, work, later, safe>>
  BY DEF Ends, odoo, auth
<1> QED
  BY <1>1, TellsTyped DEF Typed

LEMMA VerifiesTyped ==
    ASSUME Typed, NEW c \in Call, Verifies(c) \/ Identifies(c)
    PROVE  Typed'
<1>1. CASE Hits(c)
  <2>1. pc[c] # "done" /\ Goes(c, "accepted") /\ told' = told /\ "accepted" \in Step \ {"done"}
    BY <1>1 DEF Hits, Step
  <2>2. later' \subseteq Call
    BY <1>1 DEF Hits, Notes, Typed
  <2> QED
    BY <1>1, <2>1, <2>2, GoesTyped DEF Hits, Typed, odoo, auth
<1>2. CASE Asks(c)
  <2>1. pc[c] # "done" /\ Goes(c, "asking") /\ told' = told /\ "asking" \in Step \ {"done"}
    BY <1>2 DEF Asks, Step
  <2>2. later' \subseteq Call
    BY <1>2 DEF Asks, Notes, Typed
  <2>3. asked' \in [Call -> 0 .. now'] /\ cached' = {}
    BY <1>2 DEF Asks, Typed, odoo
  <2> QED
    BY <1>2, <2>1, <2>2, <2>3, GoesTyped DEF Asks, Typed, odoo
<1>3. CASE Identifies(c)
  BY <1>3 DEF Identifies, Typed, odoo
<1>4. CASE Accepts(c)
  <2>1. pc[c] # "done" /\ Goes(c, "accepted") /\ told' = told /\ "accepted" \in Step \ {"done"}
    BY <1>4 DEF Accepts, Step
  <2>2. asked' \in [Call -> 0 .. now] /\ identity' \in [Call -> {"awaited", "valid", "invalid"}]
    BY <1>4 DEF Accepts, Returns, Typed
  <2>3. cached' = {} \/ \E t \in 0 .. now + CacheTTL : cached' = {t}
    <3>1. now + CacheTTL \in 0 .. now + CacheTTL
      BY DEF Typed
    <3>2. cached' = {now + CacheTTL} \/ cached' = cached
      BY <1>4 DEF Accepts
    <3> QED
      BY <3>1, <3>2 DEF Typed
  <2> QED
    BY <1>4, <2>1, <2>2, <2>3, GoesTyped DEF Accepts, Typed, odoo
<1>5. CASE Rejects(c)
  <2>1. PICK what \in {"refused", "error"} : Tells(c, what)
    BY <1>5 DEF Rejects
  <2>2. what \in Told \ {"nothing"}
    BY DEF Told
  <2>3. asked' \in [Call -> 0 .. now] /\ identity' \in [Call -> {"awaited", "valid", "invalid"}]
    BY <1>5 DEF Rejects, Returns, Typed
  <2> QED
    BY <1>5, <2>1, <2>2, <2>3, TellsTyped DEF Rejects, Typed, odoo
<1> QED
  BY <1>1, <1>2, <1>3, <1>4, <1>5 DEF Verifies

\* One of the requests of a call gets on.
LEMMA BecomesFacts ==
    ASSUME Typed, NEW c \in Call, NEW n \in DOMAIN work[c], NEW what \in Stage,
           Becomes(c, n, what)
    PROVE  /\ work' \in [Call -> Seq(Stage)]
           /\ DOMAIN work'[c] = DOMAIN work[c] /\ Len(work'[c]) = Len(work[c])
           /\ work'[c][n] = what /\ \A m \in DOMAIN work[c] \ {n} : work'[c][m] = work[c][m]
           /\ \A d \in Call \ {c} : work'[d] = work[d]
<1>1. work' = [work EXCEPT ![c] = [work[c] EXCEPT ![n] = what]]
  BY DEF Becomes
<1>2. work[c] \in Seq(Stage)
  BY DEF Typed
<1>3. [work[c] EXCEPT ![n] = what] \in Seq(Stage)
  BY <1>2, ExceptSeq
<1>4. work'[c] = [work[c] EXCEPT ![n] = what] /\ \A d \in Call \ {c} : work'[d] = work[d]
  BY <1>1 DEF Typed
<1>5. Len(work'[c]) = Len(work[c]) /\ DOMAIN work'[c] = DOMAIN work[c]
  BY <1>2, <1>4, ExceptSeq
<1> QED
  BY <1>1, <1>2, <1>3, <1>4, <1>5 DEF Typed

\* What Odoo does with a request: it gets on, and it is not on its way for
\* ever if the plan or the answer depends on it.
LEMMA WorksFacts ==
    ASSUME Typed, NEW c \in Call, NEW n \in DOMAIN work[c], Works(c, n)
    PROVE  \E what \in Stage \ {"travelling"} :
              /\ Becomes(c, n, what)
              /\ work[c][n] \in {"travelling", "running"}
              /\ what = "executed" => plan'.state = "executed"
              /\ what = "not_executed" => plan.state # "executed" /\ plan' = plan
              /\ \/ plan' = plan
                 \/ /\ plan.state = "approved" /\ c \notin safe
                    /\ plan' = [state |-> "executed", by |-> c]
                    /\ what \in {"executed", "unclear", "unheard"}
<1> DEFINE heard == pc[c] = "sending" /\ n = Len(work[c])
<1>1. CASE Arrives(c, n)
  <2>1. CASE revoked = {}
    BY <1>1, <2>1 DEF Arrives, Stage
  <2>2. CASE revoked # {}
    <3>1. PICK answer \in {"refused", "unclear"} : Answers(c, n, answer)
      BY <1>1, <2>2 DEF Arrives
    <3>2. Becomes(c, n, IF heard THEN answer ELSE "unheard")
      BY <3>1 DEF Answers
    <3>3. plan' = plan /\ work[c][n] = "travelling"
      BY <1>1 DEF Arrives
    <3>4. CASE heard
      BY <3>1, <3>2, <3>3, <3>4 DEF Stage, Answer
    <3>5. CASE ~ heard
      BY <3>2, <3>3, <3>5 DEF Stage
    <3> QED
      BY <3>4, <3>5
  <2> QED
    BY <2>1, <2>2
<1>2. CASE Reads(c, n)
  <2>1. PICK answer \in {PlanSays, "unclear"} : Answers(c, n, answer)
    BY <1>2 DEF Reads, Says
  <2>2. Becomes(c, n, IF heard THEN answer ELSE "unheard")
    BY <2>1 DEF Answers
  <2>3. plan' = plan /\ work[c][n] = "running"
    BY <1>2 DEF Reads
  <2>4. CASE heard
    BY <2>1, <2>2, <2>3, <2>4 DEF Stage, Answer, PlanSays
  <2>5. CASE ~ heard
    BY <2>2, <2>3, <2>5 DEF Stage
  <2> QED
    BY <2>4, <2>5
<1>3. CASE Executes(c, n)
  <2>1. CASE plan.state = "approved"
    <3>1. PICK answer \in {"executed", "unclear"} : Answers(c, n, answer)
      BY <1>3, <2>1 DEF Executes, Says
    <3>2. Becomes(c, n, IF heard THEN answer ELSE "unheard")
      BY <3>1 DEF Answers
    <3>3. /\ plan' = [state |-> "executed", by |-> c] /\ plan'.state = "executed"
          /\ work[c][n] = "running" /\ c \notin safe
      BY <1>3, <2>1 DEF Executes
    <3>4. CASE heard
      BY <2>1, <3>1, <3>2, <3>3, <3>4 DEF Stage, Answer
    <3>5. CASE ~ heard
      BY <2>1, <3>2, <3>3, <3>5 DEF Stage
    <3> QED
      BY <3>4, <3>5
  <2>2. CASE plan.state # "approved"
    <3>1. PICK answer \in {PlanSays, "unclear"} : Answers(c, n, answer)
      BY <1>3, <2>2 DEF Executes, Says
    <3>2. Becomes(c, n, IF heard THEN answer ELSE "unheard")
      BY <3>1 DEF Answers
    <3>3. plan' = plan /\ work[c][n] = "running"
      BY <1>3, <2>2 DEF Executes
    <3>4. CASE heard
      BY <3>1, <3>2, <3>3, <3>4 DEF Stage, Answer, PlanSays
    <3>5. CASE ~ heard
      BY <3>2, <3>3, <3>5 DEF Stage
    <3> QED
      BY <3>4, <3>5
  <2> QED
    BY <2>1, <2>2
<1>4. CASE Refuses(c, n)
  <2>1. Becomes(c, n, IF heard THEN "refused" ELSE "unheard")
    BY <1>4 DEF Refuses, Answers
  <2>2. plan' = plan /\ work[c][n] = "running"
    BY <1>4 DEF Refuses
  <2>3. CASE heard
    BY <2>1, <2>2, <2>3 DEF Stage, Answer
  <2>4. CASE ~ heard
    BY <2>1, <2>2, <2>4 DEF Stage
  <2> QED
    BY <2>3, <2>4
<1> QED
  BY <1>1, <1>2, <1>3, <1>4 DEF Works

LEMMA WorksTyped ==
    ASSUME Typed, NEW c \in Call, NEW n \in DOMAIN work[c], Works(c, n)
    PROVE  Typed'
<1>1. PICK what \in Stage : /\ Becomes(c, n, what)
                            /\ \/ plan' = plan
                               \/ plan' = [state |-> "executed", by |-> c]
  BY WorksFacts
<1>2. work' \in [Call -> Seq(Stage)]
  BY <1>1, BecomesFacts
<1>3. /\ plan' \in [state : {"pending", "approved", "executed"}, by : Call \cup {Nobody}]
      /\ plan'.state = "executed" <=> plan'.by # Nobody
  BY <1>1 DEF Typed
<1> QED
  BY <1>1, <1>2, <1>3 DEF Becomes, Typed, auth

\* What is left of a call's own steps, and the rest of the world.
LEMMA ServesTyped ==
    ASSUME Typed, NEW c \in Call, Serves(c) \/ GivesUp(c) \/ Cancelled(c)
    PROVE  Typed'
<1>1. CASE Queues(c)
  <2>1. UNCHANGED <<now, revoked, cached, plan, asked, identity, work, later, safe>>
    BY <1>1 DEF Queues, odoo, auth
  <2>2. CASE Goes(c, "queued") /\ told' = told
    <3>1. pc[c] # "done" /\ "queued" \in Step \ {"done"}
      BY <1>1 DEF Queues, Step
    <3> QED
      BY <2>1, <2>2, <3>1, GoesTyped DEF Typed
  <2>3. CASE Tells(c, "refused")
    <3>1. "refused" \in Told \ {"nothing"}
      BY DEF Told
    <3> QED
      BY <2>1, <2>3, <3>1, TellsTyped DEF Typed
  <2> QED
    BY <1>1, <2>2, <2>3 DEF Queues
<1>2. CASE Sends(c)
  <2>1. CASE Ends(c, "refused")
    BY <2>1, EndsTyped DEF Told
  <2>2. CASE ~ Ends(c, "refused")
    <3>1. /\ Goes(c, "sending") /\ pc[c] # "done" /\ told' = told /\ "sending" \in Step \ {"done"}
          /\ work' = [work EXCEPT ![c] = Append(work[c], "travelling")]
          /\ UNCHANGED <<now, revoked, cached, plan, asked, identity, later, safe>>
      BY <1>2, <2>2 DEF Sends, Step, odoo, auth
    <3>2. Append(work[c], "travelling") \in Seq(Stage)
      BY DEF Typed, Stage
    <3>3. work' \in [Call -> Seq(Stage)]
      BY <3>1, <3>2 DEF Typed
    <3> QED
      BY <3>1, <3>3, GoesTyped DEF Typed
  <2> QED
    BY <2>1, <2>2
<1>3. CASE Fails(c)
  <2>1. CASE Ends(c, "error")
    BY <2>1, EndsTyped DEF Told
  <2>2. CASE ~ Ends(c, "error")
    <3>1. /\ Goes(c, "delay") /\ pc[c] # "done" /\ told' = told /\ "delay" \in Step \ {"done"}
          /\ UNCHANGED <<now, revoked, cached, plan, asked, identity, work, later, safe>>
      BY <1>3, <2>2 DEF Fails, Step, odoo, auth
    <3> QED
      BY <3>1, GoesTyped DEF Typed
  <2> QED
    BY <2>1, <2>2
<1>4. CASE Receives(c)
  <2>1. PICK what \in Told \ {"nothing"} : Ends(c, what)
    BY <1>4 DEF Receives, Answer, Told
  <2> QED
    BY <2>1, EndsTyped
<1>5. CASE GivesUp(c)
  BY <1>5, EndsTyped DEF GivesUp, Told
<1>6. CASE Cancelled(c)
  BY <1>6, EndsTyped DEF Cancelled, Told
<1> QED
  BY <1>1, <1>2, <1>3, <1>4, <1>5, <1>6 DEF Serves

LEMMA WorldTyped ==
    ASSUME Typed, Approves \/ Revokes \/ Ticks
    PROVE  Typed'
<1>1. CASE Approves
  <2>1. /\ plan' \in [state : {"pending", "approved", "executed"}, by : Call \cup {Nobody}]
        /\ plan'.state = "executed" <=> plan'.by # Nobody
    BY <1>1 DEF Approves, Typed
  <2> QED
    BY <1>1, <2>1 DEF Approves, Typed, auth
<1>2. CASE Revokes
  <2>1. revoked' = {now} /\ now \in 0 .. now
    BY <1>2 DEF Revokes, Typed
  <2> QED
    BY <1>2, <2>1 DEF Revokes, Typed, auth
<1>3. CASE Ticks
  <2>1. now' = now + 1 /\ now \in Nat /\ UNCHANGED <<plan, revoked, safe, auth, pc, work, line, told, later>>
    BY <1>3 DEF Ticks, Typed
  <2>2. 0 .. now \subseteq 0 .. now' /\ 0 .. now + CacheTTL \subseteq 0 .. now' + CacheTTL
    BY <2>1
  <2> QED
    BY <2>1, <2>2 DEF Typed, auth
<1> QED
  BY <1>1, <1>2, <1>3

(***************************************************************************)
(* The key.                                                                *)
(***************************************************************************)
\* Whatever else a call does, the verification does not notice.
LEMMA KeyKeeps ==
    ASSUME KeyInv, UNCHANGED <<revoked, auth>>,
           \A d \in Call : pc[d] = "asking" => pc'[d] = "asking"
    PROVE  KeyInv'
  BY DEF KeyInv, auth

LEMMA VerifiesKey ==
    ASSUME Typed, KeyInv, NEW c \in Call, Verifies(c) \/ Identifies(c)
    PROVE  KeyInv'
<1>1. CASE Hits(c)
  <2>1. \A d \in Call : pc[d] = "asking" => pc'[d] = "asking"
    BY <1>1 DEF Hits, Goes, Typed
  <2> QED
    BY <1>1, <2>1, KeyKeeps DEF Hits, odoo
<1>2. CASE Asks(c)
  <2>1. /\ pc'[c] = "asking" /\ identity[c] = "awaited" /\ cached' = {}
        /\ UNCHANGED <<identity, revoked>>
        /\ \A d \in Call \ {c} : pc'[d] = pc[d] /\ asked'[d] = asked[d]
    BY <1>2 DEF Asks, Goes, Typed, KeyInv, odoo
  <2> QED
    BY <2>1 DEF KeyInv
<1>3. CASE Identifies(c)
  <2>1. /\ UNCHANGED <<cached, asked, pc, revoked>> /\ pc[c] = "asking"
        /\ \A d \in Call \ {c} : identity'[d] = identity[d]
        /\ revoked # {} => identity'[c] = "invalid"
    BY <1>3 DEF Identifies, Typed, odoo
  <2> QED
    BY <2>1 DEF KeyInv
<1>4. CASE Accepts(c)
  <2>1. /\ identity[c] = "valid" /\ now <= asked[c] + RequestTimeout
        /\ pc'[c] = "accepted" /\ identity'[c] = "awaited" /\ UNCHANGED revoked
        /\ \A d \in Call \ {c} : pc'[d] = pc[d] /\ asked'[d] = asked[d]
                                 /\ identity'[d] = identity[d]
        /\ cached' = {now + CacheTTL} \/ cached' = cached
    BY <1>4 DEF Accepts, Goes, Returns, Typed, odoo
  <2>2. ASSUME NEW r \in revoked
        PROVE  now + CacheTTL <= r + RequestTimeout + CacheTTL
    <3>1. asked[c] <= r
      BY <2>1 DEF KeyInv
    <3>2. r \in Nat /\ now \in Nat /\ asked[c] \in Nat
      BY DEF Typed
    <3> QED
      BY <2>1, <3>1, <3>2
  <2> QED
    BY <2>1, <2>2 DEF KeyInv
<1>5. CASE Rejects(c)
  <2>1. /\ pc'[c] = "done" /\ identity'[c] = "awaited" /\ UNCHANGED <<revoked, cached>>
        /\ \A d \in Call \ {c} : pc'[d] = pc[d] /\ asked'[d] = asked[d]
                                 /\ identity'[d] = identity[d]
    BY <1>5 DEF Rejects, Tells, Goes, Returns, Typed, odoo
  <2> QED
    BY <2>1 DEF KeyInv
<1> QED
  BY <1>1, <1>2, <1>3, <1>4, <1>5 DEF Verifies

LEMMA WorldKey ==
    ASSUME Typed, KeyInv, Approves \/ Revokes \/ Ticks
    PROVE  KeyInv'
<1>1. CASE Approves \/ Ticks
  BY <1>1, KeyKeeps DEF Approves, Ticks
<1>2. CASE Revokes
  <2>1. revoked' = {now} /\ UNCHANGED <<auth, pc>>
    BY <1>2 DEF Revokes
  <2>2. \A t \in cached : t <= now + RequestTimeout + CacheTTL
    BY DEF Typed
  <2>3. \A d \in Call : asked[d] <= now
    BY DEF Typed
  <2> QED
    BY <2>1, <2>2, <2>3 DEF KeyInv, auth
<1> QED
  BY <1>1, <1>2

(***************************************************************************)
(* The line.                                                               *)
(***************************************************************************)
\* Nobody comes or goes, and only the first begins to be served.
LEMMA LineKeeps ==
    ASSUME LineInv, line' = line,
           \A d \in Call : pc'[d] \in Waiting <=> pc[d] \in Waiting,
           \A d \in Call : pc'[d] \in Served =>
               pc[d] \in Served \/ (line[User] # <<>> /\ d = Head(line[User]))
    PROVE  LineInv'
<1>1. \A d \in Call : InLine(d)' <=> InLine(d)
  BY DEF InLine
<1> QED
  BY <1>1 DEF LineInv

\* The line and this module mean the same by RemoveAt.
LEMMA LineRemoves ==
    ASSUME NEW q, NEW i
    PROVE  Line!RemoveAt(q, i) = RemoveAt(q, i)
  BY DEF Line!RemoveAt, RemoveAt

\* What becomes of a sequence without repetition when one element leaves.
LEMMA RemoveOne ==
    ASSUME NEW S, NEW q \in Seq(S), NEW i \in 1 .. Len(q),
           \A j, k \in DOMAIN q : q[j] = q[k] => j = k
    PROVE  /\ RemoveAt(q, i) \in Seq(S)
           /\ \A e : (\E k \in DOMAIN RemoveAt(q, i) : RemoveAt(q, i)[k] = e)
                     <=> (e # q[i] /\ \E k \in DOMAIN q : q[k] = e)
           /\ \A j, k \in DOMAIN RemoveAt(q, i) :
                 RemoveAt(q, i)[j] = RemoveAt(q, i)[k] => j = k
           /\ i # 1 => RemoveAt(q, i) # <<>> /\ Head(RemoveAt(q, i)) = Head(q)
<1> DEFINE r == RemoveAt(q, i)
<1>1. Len(q) \in Nat /\ i \in Nat /\ i >= 1 /\ i <= Len(q) /\ DOMAIN q = 1 .. Len(q)
  BY LenProperties
<1>2. /\ r \in Seq(S) /\ DOMAIN r = 1 .. Len(q) - 1 /\ Len(r) = Len(q) - 1
      /\ \A j \in 1 .. Len(q) - 1 : r[j] = IF j < i THEN q[j] ELSE q[j + 1]
  <2>1. /\ r \in Seq(S) /\ Len(r) = Len(q) - 1
        /\ \A j \in 1 .. Len(q) - 1 : r[j] = IF j < i THEN q[j] ELSE q[j + 1]
    BY RemoveAtFacts
  <2> HIDE DEF r
  <2>2. DOMAIN r = 1 .. Len(r)
    BY <2>1
  <2> QED
    BY <2>1, <2>2
<1> HIDE DEF r
<1>3. ASSUME NEW k \in DOMAIN r
      PROVE  \E m \in DOMAIN q : m # i /\ r[k] = q[m]
  <2>1. CASE k < i
    BY <1>1, <1>2, <2>1
  <2>2. CASE ~ (k < i)
    <3>1. k + 1 \in DOMAIN q /\ k + 1 # i /\ r[k] = q[k + 1]
      BY <1>1, <1>2, <2>2
    <3> QED
      BY <3>1
  <2> QED
    BY <2>1, <2>2
<1>4. ASSUME NEW m \in DOMAIN q, m # i
      PROVE  \E k \in DOMAIN r : r[k] = q[m]
  <2>1. CASE m < i
    BY <1>1, <1>2, <2>1
  <2>2. CASE m > i
    <3>1. m - 1 \in DOMAIN r /\ r[m - 1] = q[m]
      BY <1>1, <1>2, <2>2
    <3> QED
      BY <3>1
  <2> QED
    BY <1>1, <1>4, <2>1, <2>2
<1>5. \A e : (\E k \in DOMAIN r : r[k] = e) <=> (e # q[i] /\ \E k \in DOMAIN q : q[k] = e)
  BY <1>1, <1>3, <1>4
<1>6. ASSUME NEW j \in DOMAIN r, NEW k \in DOMAIN r, r[j] = r[k]
      PROVE  j = k
  <2> DEFINE at(x) == IF x < i THEN x ELSE x + 1
  <2>1. at(j) \in DOMAIN q /\ at(k) \in DOMAIN q /\ r[j] = q[at(j)] /\ r[k] = q[at(k)]
    BY <1>1, <1>2
  <2>2. at(j) = at(k)
    BY <1>6, <2>1
  <2> QED
    BY <1>1, <1>2, <2>2
<1>7. i # 1 => r # <<>> /\ Head(r) = Head(q)
  <2>1. ASSUME i # 1
        PROVE  1 \in DOMAIN r /\ r[1] = q[1] /\ 1 \in DOMAIN q
    BY <1>1, <1>2, <2>1
  <2> QED
    BY <1>2, <2>1
<1> QED
  BY <1>2, <1>5, <1>6, <1>7 DEF r

\* A call leaves the line when it is done.
LEMMA LeavesKeepsLine ==
    ASSUME Typed, LineInv, NEW c \in Call, LeavesLine(c),
           pc' = [pc EXCEPT ![c] = "done"]
    PROVE  LineInv'
<1> DEFINE q == line[User]
<1>1. PICK i \in DOMAIN q : q[i] = c /\ line' = [line EXCEPT ![User] = RemoveAt(q, i)]
  BY LineRemoves DEF LeavesLine, Line!Leave
<1>2. q \in Seq(Call) /\ i \in 1 .. Len(q) /\ \A j, k \in DOMAIN q : q[j] = q[k] => j = k
  BY DEF LineInv
<1>3. line'[User] = RemoveAt(q, i)
  BY <1>1 DEF LineInv
<1> DEFINE r == RemoveAt(q, i)
<1>4. /\ r \in Seq(Call)
      /\ \A e : (\E k \in DOMAIN r : r[k] = e) <=> (e # c /\ \E k \in DOMAIN q : q[k] = e)
      /\ \A j, k \in DOMAIN r : r[j] = r[k] => j = k
      /\ i # 1 => r # <<>> /\ Head(r) = Head(q)
  <2> HIDE DEF q
  <2>1. /\ RemoveAt(q, i) \in Seq(Call)
        /\ \A e : (\E k \in DOMAIN RemoveAt(q, i) : RemoveAt(q, i)[k] = e)
                  <=> (e # q[i] /\ \E k \in DOMAIN q : q[k] = e)
        /\ \A j, k \in DOMAIN RemoveAt(q, i) :
              RemoveAt(q, i)[j] = RemoveAt(q, i)[k] => j = k
        /\ i # 1 => RemoveAt(q, i) # <<>> /\ Head(RemoveAt(q, i)) = Head(q)
    BY <1>2, RemoveOne
  <2> QED
    BY <1>1, <2>1
<1>5. pc'[c] = "done" /\ \A d \in Call \ {c} : pc'[d] = pc[d]
  BY DEF Typed
<1>6. line' \in [{User} -> Seq(Call)]
  BY <1>1, <1>4 DEF LineInv
<1>7. ASSUME NEW d \in Call
      PROVE  InLine(d)' <=> pc'[d] \in Waiting
  <2>1. InLine(d)' <=> d # c /\ InLine(d)
    BY <1>3, <1>4 DEF InLine
  <2> QED
    BY <1>5, <2>1 DEF LineInv, Waiting, Served
<1>8. ASSUME NEW d \in Call, pc'[d] \in Served
      PROVE  line'[User] # <<>> /\ d = Head(line'[User])
  <2>1. d # c /\ q # <<>> /\ d = Head(q)
    BY <1>5, <1>8 DEF LineInv, Served
  <2>2. i # 1
    BY <1>1, <1>2, <2>1
  <2> QED
    BY <1>3, <1>4, <2>1, <2>2
<1> HIDE DEF q, r
<1>9. \A j, k \in DOMAIN line'[User] : line'[User][j] = line'[User][k] => j = k
  BY <1>3, <1>4 DEF r
<1> QED
  BY <1>6, <1>7, <1>8, <1>9 DEF LineInv

\* A newcomer goes to the end.
LEMMA JoinsKeepsLine ==
    ASSUME Typed, LineInv, NEW c \in Call, Line!Join(User, c),
           pc' = [pc EXCEPT ![c] = "queued"], pc[c] = "accepted"
    PROVE  LineInv'
<1> DEFINE q == line[User]
           r == Append(q, c)
<1>1. line' = [line EXCEPT ![User] = r]
  BY DEF Line!Join
<1>2. q \in Seq(Call) /\ Len(q) \in Nat /\ DOMAIN q = 1 .. Len(q)
      /\ \A j, k \in DOMAIN q : q[j] = q[k] => j = k
  BY DEF LineInv
<1>3. line'[User] = r
  BY <1>1 DEF LineInv
<1>4. /\ r \in Seq(Call) /\ DOMAIN r = DOMAIN q \cup {Len(q) + 1} /\ r[Len(q) + 1] = c
      /\ \A k \in DOMAIN q : r[k] = q[k]
      /\ q # <<>> => r # <<>> /\ Head(r) = Head(q)
  <2> HIDE DEF q
  <2> QED
    BY <1>2
<1>5. pc'[c] = "queued" /\ \A d \in Call \ {c} : pc'[d] = pc[d]
  BY DEF Typed
<1>6. ~ InLine(c)
  BY DEF LineInv, Waiting, Served
<1>7. line' \in [{User} -> Seq(Call)]
  BY <1>1, <1>4 DEF LineInv
<1>8. ASSUME NEW d \in Call
      PROVE  InLine(d)' <=> pc'[d] \in Waiting
  <2>1. InLine(d)' <=> d = c \/ InLine(d)
    BY <1>3, <1>4 DEF InLine
  <2> QED
    BY <1>5, <2>1 DEF LineInv, Waiting, Served
<1>9. ASSUME NEW d \in Call, pc'[d] \in Served
      PROVE  line'[User] # <<>> /\ d = Head(line'[User])
  <2>1. q # <<>> /\ d = Head(q)
    BY <1>5, <1>9 DEF LineInv, Served
  <2> QED
    BY <1>3, <1>4, <2>1
<1>10. ASSUME NEW j \in DOMAIN r, NEW k \in DOMAIN r, r[j] = r[k]
       PROVE  j = k
  <2>1. \A m \in DOMAIN q : q[m] # c
    BY <1>6 DEF InLine
  <2> QED
    BY <1>2, <1>4, <1>10, <2>1
<1> HIDE DEF q, r
<1>11. \A j, k \in DOMAIN line'[User] : line'[User][j] = line'[User][k] => j = k
  BY <1>3, <1>10
<1> QED
  BY <1>7, <1>8, <1>9, <1>11 DEF LineInv

LEMMA ServesLine ==
    ASSUME Typed, LineInv, NEW c \in Call, Serves(c) \/ GivesUp(c) \/ Cancelled(c)
    PROVE  LineInv'
<1>1. ASSUME NEW what, Ends(c, what)
      PROVE  LineInv'
  <2>1. LeavesLine(c) /\ pc' = [pc EXCEPT ![c] = "done"]
    BY <1>1 DEF Ends, Tells, Goes
  <2> QED
    BY <2>1, LeavesKeepsLine
<1>2. CASE Queues(c)
  <2>1. pc[c] = "accepted"
    BY <1>2 DEF Queues
  <2>2. CASE Line!Join(User, c) /\ Goes(c, "queued")
    BY <2>1, <2>2, JoinsKeepsLine DEF Goes
  <2>3. CASE Tells(c, "refused") /\ line' = line
    <3>1. pc'[c] = "done" /\ \A d \in Call \ {c} : pc'[d] = pc[d]
      BY <2>3 DEF Tells, Goes, Typed
    <3> QED
      BY <2>1, <2>3, <3>1, LineKeeps DEF Waiting, Served
  <2> QED
    BY <1>2, <2>2, <2>3 DEF Queues
<1>3. CASE Sends(c)
  <2>1. CASE Ends(c, "refused")
    BY <1>1, <2>1
  <2>2. CASE ~ Ends(c, "refused")
    <3>1. /\ Goes(c, "sending") /\ line' = line
          /\ pc[c] = "delay" \/ (pc[c] = "queued" /\ c = Head(line[User]))
      BY <1>3, <2>2 DEF Sends
    <3>2. pc'[c] = "sending" /\ \A d \in Call \ {c} : pc'[d] = pc[d]
      BY <3>1 DEF Goes, Typed
    <3>3. line[User] # <<>> /\ c = Head(line[User])
      BY <3>1 DEF LineInv, Waiting, Served, InLine
    <3> QED
      BY <3>1, <3>2, <3>3, LineKeeps DEF Waiting, Served
  <2> QED
    BY <2>1, <2>2
<1>4. CASE Fails(c)
  <2>1. CASE Ends(c, "error")
    BY <1>1, <2>1
  <2>2. CASE ~ Ends(c, "error")
    <3>1. Goes(c, "delay") /\ line' = line /\ pc[c] = "sending"
      BY <1>4, <2>2 DEF Fails
    <3>2. pc'[c] = "delay" /\ \A d \in Call \ {c} : pc'[d] = pc[d]
      BY <3>1 DEF Goes, Typed
    <3> QED
      BY <3>1, <3>2, LineKeeps DEF Waiting, Served
  <2> QED
    BY <2>1, <2>2
<1>5. CASE Receives(c)
  BY <1>1, <1>5 DEF Receives
<1>6. CASE GivesUp(c)
  BY <1>1, <1>6 DEF GivesUp
<1>7. CASE Cancelled(c)
  BY <1>1, <1>7 DEF Cancelled
<1> QED
  BY <1>2, <1>3, <1>4, <1>5, <1>6, <1>7 DEF Serves

\* Who is verified is not in the line yet.
LEMMA VerifiesLine ==
    ASSUME Typed, LineInv, NEW c \in Call, Verifies(c) \/ Identifies(c)
    PROVE  LineInv'
<1>1. line' = line
  BY DEF Verifies, Hits, Asks, Accepts, Rejects, Identifies
<1>2. pc[c] \in {"new", "asking"} /\ pc' \in [Call -> Step]
  BY VerifiesTyped DEF Typed, Verifies, Hits, Asks, Accepts, Rejects, Identifies
<1>3. pc'[c] \in {"asking", "accepted", "done"} /\ \A d \in Call \ {c} : pc'[d] = pc[d]
  <2>1. CASE Hits(c) \/ Asks(c) \/ Accepts(c)
    BY <2>1 DEF Typed, Hits, Asks, Accepts, Goes
  <2>2. CASE Rejects(c)
    BY <2>2 DEF Typed, Rejects, Tells, Goes
  <2>3. CASE Identifies(c)
    BY <2>3 DEF Identifies
  <2> QED
    BY <2>1, <2>2, <2>3 DEF Verifies
<1> QED
  BY <1>1, <1>2, <1>3, LineKeeps DEF Waiting, Served

(***************************************************************************)
(* The answers.                                                            *)
(***************************************************************************)
\* A call ends, and is told what its requests justify.
LEMMA TellsCalls ==
    ASSUME Typed, \A d \in Call : CallInv(d), NEW c \in Call, NEW what, Tells(c, what),
           UNCHANGED <<plan, work, later, safe>>,
           what = "executed" => plan.state = "executed",
           what \in {"refused", "not_executed"} /\ c \notin safe =>
               \A n \in DOMAIN work[c] : work[c][n] \in {"refused", "not_executed"},
           what = "not_executed" => c \notin later
    PROVE  \A d \in Call : CallInv(d)'
<1>1. pc'[c] = "done" /\ told'[c] = what
  BY DEF Tells, Goes, Typed
<1>2. ASSUME NEW d \in Call, d # c
      PROVE  CallInv(d)'
  <2>1. pc'[d] = pc[d] /\ told'[d] = told[d]
    BY <1>2 DEF Tells, Goes, Typed
  <2> QED
    BY <2>1 DEF CallInv
<1>3. CallInv(c)'
  BY <1>1 DEF CallInv, Served
<1> QED
  BY <1>2, <1>3

\* A call gets on, and its requests and the plan are as before.
LEMMA GoesCalls ==
    ASSUME Typed, \A d \in Call : CallInv(d), NEW c \in Call, NEW step, Goes(c, step),
           UNCHANGED <<plan, work, told, safe>>,
           step = "delay" => c \in safe,
           step \in {"new", "asking", "accepted", "queued"} => work[c] = <<>>,
           step \in Served => work[c] # <<>>,
           \A d \in Call : d \in later' => d \in later \/ d = c,
           c \in later' /\ c \notin later =>
               plan.state = "executed" /\ told[c] = "nothing" /\ work[c] = <<>>
    PROVE  \A d \in Call : CallInv(d)'
<1>1. pc'[c] = step
  BY DEF Goes, Typed
<1>2. ASSUME NEW d \in Call, d # c
      PROVE  CallInv(d)'
  <2>1. pc'[d] = pc[d] /\ (d \in later' => d \in later)
    BY <1>2 DEF Goes, Typed
  <2> QED
    BY <2>1 DEF CallInv
<1>3. CallInv(c)'
  BY <1>1 DEF CallInv
<1> QED
  BY <1>2, <1>3

LEMMA VerifiesCalls ==
    ASSUME Typed, \A d \in Call : CallInv(d), NEW c \in Call, Verifies(c) \/ Identifies(c)
    PROVE  \A d \in Call : CallInv(d)'
<1>1. pc[c] \in {"new", "asking"} /\ UNCHANGED <<plan, work, safe>>
  BY DEF Verifies, Hits, Asks, Accepts, Rejects, Identifies, odoo
<1>2. work[c] = <<>> /\ told[c] = "nothing" /\ ~ (\E n \in DOMAIN work[c] : TRUE)
  BY <1>1 DEF CallInv, Typed
<1>3. CASE Hits(c) \/ Asks(c)
  <2>1. /\ Goes(c, "accepted") \/ Goes(c, "asking")
        /\ told' = told /\ Notes(c)
    BY <1>3 DEF Hits, Asks
  <2>2. Knows => plan.state = "executed"
    BY DEF Knows, CallInv
  <2>3. /\ \A d \in Call : d \in later' => d \in later \/ d = c
        /\ c \in later' /\ c \notin later => plan.state = "executed"
    BY <2>1, <2>2 DEF Notes
  <2>4. CASE Goes(c, "accepted")
    BY <1>1, <1>2, <2>1, <2>3, <2>4, GoesCalls DEF Served
  <2>5. CASE Goes(c, "asking")
    BY <1>1, <1>2, <2>1, <2>3, <2>5, GoesCalls DEF Served
  <2> QED
    BY <2>1, <2>4, <2>5
<1>4. CASE Accepts(c)
  BY <1>1, <1>2, <1>4, GoesCalls DEF Accepts, Served
<1>5. CASE Rejects(c)
  <2>1. PICK what \in {"refused", "error"} : Tells(c, what)
    BY <1>5 DEF Rejects
  <2>2. later' = later
    BY <1>5 DEF Rejects
  <2> QED
    BY <1>1, <1>2, <2>1, <2>2, TellsCalls
<1>6. CASE Identifies(c)
  <2>1. UNCHANGED <<plan, work, safe, pc, told, later>>
    BY <1>1, <1>6 DEF Identifies
  <2> QED
    BY <2>1 DEF CallInv
<1> QED
  BY <1>3, <1>4, <1>5, <1>6 DEF Verifies

\* Where a call is refused without an answer, nothing of it is on its way.
LEMMA RefusedCalls ==
    ASSUME Typed, \A d \in Call : CallInv(d), NEW c \in Call, Tells(c, "refused"),
           UNCHANGED <<plan, work, later, safe>>,
           pc[c] \in {"accepted", "queued", "delay"}
    PROVE  \A d \in Call : CallInv(d)'
<1>1. c \notin safe => work[c] = <<>>
  BY DEF CallInv
<1> QED
  BY <1>1, TellsCalls

\* A sequence with one more element.
LEMMA AppendFacts ==
    ASSUME NEW S, NEW q \in Seq(S), NEW e
    PROVE  /\ Len(Append(q, e)) = Len(q) + 1 /\ Append(q, e) # <<>>
           /\ DOMAIN Append(q, e) = DOMAIN q \cup {Len(q) + 1}
           /\ Append(q, e)[Len(q) + 1] = e
           /\ \A n \in DOMAIN q : Append(q, e)[n] = q[n]
<1>1. Len(q) \in Nat /\ DOMAIN q = 1 .. Len(q)
  OBVIOUS
<1>2. /\ Len(Append(q, e)) = Len(q) + 1
      /\ Append(q, e)[Len(q) + 1] = e
      /\ \A n \in 1 .. Len(q) : Append(q, e)[n] = q[n]
  OBVIOUS
<1>3. DOMAIN Append(q, e) = 1 .. Len(q) + 1 /\ Append(q, e) # <<>>
  OBVIOUS
<1> QED
  BY <1>1, <1>2, <1>3

\* A request is sent.
LEMMA SendsCalls ==
    ASSUME Typed, \A d \in Call : CallInv(d), NEW c \in Call, Goes(c, "sending"),
           work' = [work EXCEPT ![c] = Append(work[c], "travelling")],
           UNCHANGED <<plan, told, later, safe>>,
           pc[c] \in {"queued", "delay"}
    PROVE  \A d \in Call : CallInv(d)'
<1>1. ASSUME NEW d \in Call, d # c
      PROVE  CallInv(d)'
  <2>1. /\ pc'[d] = pc[d] /\ work'[d] = work[d] /\ told'[d] = told[d]
        /\ UNCHANGED <<plan, later, safe>> /\ CallInv(d)
    BY <1>1 DEF Goes, Typed
  <2> QED
    BY ONLY <2>1 DEF CallInv
<1>2. pc'[c] = "sending" /\ work'[c] = Append(work[c], "travelling") /\ work[c] \in Seq(Stage)
  BY DEF Goes, Typed
<1>3. /\ Len(work'[c]) = Len(work[c]) + 1 /\ work'[c] # <<>>
      /\ DOMAIN work'[c] = DOMAIN work[c] \cup {Len(work[c]) + 1}
      /\ work'[c][Len(work[c]) + 1] = "travelling"
      /\ \A n \in DOMAIN work[c] : work'[c][n] = work[c][n]
  BY <1>2, AppendFacts
<1>4. c \notin safe => work[c] = <<>> /\ Len(work[c]) = 0
  BY DEF CallInv
<1>5. plan.by # c
  BY <1>4 DEF CallInv
<1>6. told[c] = "nothing"
  BY DEF Typed
<1>7. c \notin safe => Len(work'[c]) <= 1
  BY <1>3, <1>4
<1>8. ASSUME NEW n \in DOMAIN work'[c]
      PROVE  work'[c][n] = "travelling" \/ (n \in DOMAIN work[c] /\ work'[c][n] = work[c][n])
  BY <1>3
<1>9. \A n \in DOMAIN work'[c] : work'[c][n] = "executed" => plan.state = "executed"
  BY <1>8 DEF CallInv
<1>10. c \in later => /\ plan.state = "executed"
                      /\ \A n \in DOMAIN work'[c] : work'[c][n] # "not_executed"
  BY <1>8 DEF CallInv
<1>11. CallInv(c)'
  BY <1>2, <1>3, <1>5, <1>6, <1>7, <1>9, <1>10 DEF CallInv
<1> QED
  BY <1>1, <1>11

LEMMA ServesCalls ==
    ASSUME Typed, \A d \in Call : CallInv(d), NEW c \in Call,
           Serves(c) \/ GivesUp(c) \/ Cancelled(c)
    PROVE  \A d \in Call : CallInv(d)'
<1>1. ASSUME NEW what, Ends(c, what)
      PROVE  Tells(c, what) /\ UNCHANGED <<plan, work, later, safe>>
  BY <1>1 DEF Ends, odoo
<1>2. Ends(c, "error") => \A d \in Call : CallInv(d)'
  BY <1>1, TellsCalls
<1>3. CASE Queues(c)
  <2>1. UNCHANGED <<plan, work, later, safe>> /\ pc[c] = "accepted"
    BY <1>3 DEF Queues, odoo
  <2>2. CASE Goes(c, "queued") /\ told' = told
    <3>1. work[c] = <<>>
      BY <2>1 DEF CallInv
    <3> QED
      BY <2>1, <2>2, <3>1, GoesCalls DEF Served
  <2>3. CASE Tells(c, "refused")
    BY <2>1, <2>3, RefusedCalls
  <2> QED
    BY <1>3, <2>2, <2>3 DEF Queues
<1>4. CASE Sends(c)
  <2>1. pc[c] \in {"queued", "delay"}
    BY <1>4 DEF Sends
  <2>2. CASE Ends(c, "refused")
    BY <1>1, <2>1, <2>2, RefusedCalls
  <2>3. CASE ~ Ends(c, "refused")
    BY <1>4, <2>1, <2>3, SendsCalls DEF Sends, odoo
  <2> QED
    BY <2>2, <2>3
<1>5. CASE Fails(c)
  <2>1. CASE Ends(c, "error")
    BY <1>2, <2>1
  <2>2. CASE ~ Ends(c, "error")
    <3>1. /\ Goes(c, "delay") /\ UNCHANGED <<plan, work, told, later, safe>>
          /\ Len(work[c]) < Attempts(c) /\ pc[c] = "sending"
      BY <1>5, <2>2 DEF Fails, odoo
    <3>2. work[c] # <<>> /\ work[c] \in Seq(Stage)
      BY <3>1 DEF CallInv, Served, Typed
    <3>3. Len(work[c]) >= 1
      BY <3>2
    <3>4. c \in safe
      BY <3>1, <3>3 DEF Attempts
    <3> QED
      BY <3>1, <3>2, <3>4, GoesCalls
  <2> QED
    BY <2>1, <2>2
<1>6. CASE Receives(c)
  <2> DEFINE n == Len(work[c])
  <2>1. work[c] # <<>> /\ work[c] \in Seq(Stage)
    BY <1>6 DEF Receives, CallInv, Served, Typed
  <2>2. n \in DOMAIN work[c] /\ Last(work[c]) = work[c][n]
    BY <2>1 DEF Last
  <2>3. c \notin safe => \A m \in DOMAIN work[c] : m = n
    BY <2>1 DEF CallInv
  <2> HIDE DEF n
  <2>4. CASE work[c][n] = "unclear"
    BY <1>2, <1>6, <2>2, <2>4 DEF Receives
  <2>5. CASE work[c][n] # "unclear"
    <3>1. Ends(c, work[c][n])
      BY <1>6, <2>2, <2>5 DEF Receives
    <3>2. Tells(c, work[c][n]) /\ UNCHANGED <<plan, work, later, safe>>
      BY <1>1, <3>1
    <3>3. /\ work[c][n] = "executed" => plan.state = "executed"
          /\ work[c][n] = "not_executed" => c \notin later
      BY <2>2 DEF CallInv
    <3>4. work[c][n] \in {"refused", "not_executed"} /\ c \notin safe =>
              \A m \in DOMAIN work[c] : work[c][m] \in {"refused", "not_executed"}
      BY <2>3
    <3> QED
      BY <3>2, <3>3, <3>4, TellsCalls
  <2> QED
    BY <2>4, <2>5
<1>7. CASE GivesUp(c)
  <2>1. Ends(c, "refused") /\ pc[c] = "queued"
    BY <1>7 DEF GivesUp
  <2> QED
    BY <1>1, <2>1, RefusedCalls
<1>8. CASE Cancelled(c)
  BY <1>2, <1>8 DEF Cancelled
<1> QED
  BY <1>3, <1>4, <1>5, <1>6, <1>7, <1>8 DEF Serves

\* What Odoo does is done once, and not for a call that has been answered.
LEMMA WorksCalls ==
    ASSUME Typed, \A d \in Call : CallInv(d), NEW c \in Call, NEW n \in DOMAIN work[c],
           Works(c, n)
    PROVE  \A d \in Call : CallInv(d)'
<1>1. PICK what \in Stage \ {"travelling"} :
              /\ Becomes(c, n, what)
              /\ work[c][n] \in {"travelling", "running"}
              /\ what = "executed" => plan'.state = "executed"
              /\ what = "not_executed" => plan.state # "executed" /\ plan' = plan
              /\ \/ plan' = plan
                 \/ /\ plan.state = "approved" /\ c \notin safe
                    /\ plan' = [state |-> "executed", by |-> c]
                    /\ what \in {"executed", "unclear", "unheard"}
  BY WorksFacts
<1>2. UNCHANGED <<safe, pc, told, later>>
  BY <1>1 DEF Becomes
<1>3. /\ DOMAIN work'[c] = DOMAIN work[c] /\ Len(work'[c]) = Len(work[c])
      /\ work'[c][n] = what /\ \A m \in DOMAIN work[c] \ {n} : work'[c][m] = work[c][m]
      /\ \A d \in Call \ {c} : work'[d] = work[d]
  BY <1>1, BecomesFacts
<1>4. plan.state = "executed" => plan'.state = "executed"
  BY <1>1
<1>5. ASSUME NEW d \in Call, d # c
      PROVE  CallInv(d)'
  <2>1. work'[d] = work[d] /\ (plan'.by = d => plan.by = d)
    BY <1>1, <1>3, <1>5
  <2> QED
    BY <1>2, <1>4, <2>1 DEF CallInv
<1>6. work[c] \in Seq(Stage) /\ n \in 1 .. Len(work[c]) /\ work[c] # <<>> /\ Len(work[c]) \in Nat
  BY DEF Typed
<1>7. work'[c] # <<>>
  BY <1>3, <1>6
<1>8. c \notin safe => Len(work[c]) = 1 /\ n = 1
  <2>1. SUFFICES ASSUME c \notin safe
                 PROVE  Len(work[c]) = 1 /\ n = 1
    OBVIOUS
  <2>2. Len(work[c]) <= 1
    BY <2>1 DEF CallInv
  <2>3. n \in 1 .. Len(work[c]) /\ Len(work[c]) \in Nat
    BY <1>6
  <2> DEFINE k == Len(work[c])
  <2> HIDE DEF k
  <2>4. k <= 1 /\ n \in 1 .. k /\ k \in Nat
    BY <2>2, <2>3 DEF k
  <2>5. k = 1 /\ n = 1
    BY ONLY <2>4
  <2> QED
    BY ONLY <2>5 DEF k
<1>9. plan.by # c
  BY <1>1, <1>8 DEF CallInv
<1>10. plan'.by = c => /\ c \notin safe /\ Len(work'[c]) = 1
                       /\ work'[c][1] \in {"executed", "unclear", "unheard"}
  BY <1>1, <1>3, <1>8, <1>9
<1>11. \A m \in DOMAIN work'[c] : work'[c][m] = "executed" => plan'.state = "executed"
  BY <1>1, <1>3, <1>4 DEF CallInv
<1>12. ~ (told[c] \in {"refused", "not_executed"} /\ c \notin safe)
  BY <1>1 DEF CallInv
<1>13. c \in later => /\ plan'.state = "executed" /\ told[c] # "not_executed"
                      /\ \A m \in DOMAIN work'[c] : work'[c][m] # "not_executed"
  BY <1>1, <1>3, <1>4 DEF CallInv
<1>14. pc[c] \notin {"new", "asking", "accepted", "queued"}
  BY <1>6 DEF CallInv
<1>15. /\ c \notin safe => Len(work'[c]) <= 1 /\ pc[c] # "delay"
       /\ told[c] = "executed" => plan'.state = "executed"
  BY <1>3, <1>4 DEF CallInv
<1>16. CallInv(c)'
  BY <1>2, <1>7, <1>10, <1>11, <1>12, <1>13, <1>14, <1>15 DEF CallInv
<1> QED
  BY <1>5, <1>16

LEMMA WorldCalls ==
    ASSUME Typed, \A d \in Call : CallInv(d), Approves \/ Revokes \/ Ticks
    PROVE  \A d \in Call : CallInv(d)'
<1>1. UNCHANGED <<safe, pc, work, told, later>>
  BY DEF Approves, Revokes, Ticks
<1>2. CASE Approves
  <2>1. plan'.by = plan.by /\ plan.state # "executed"
    BY <1>2 DEF Approves, Typed
  <2> QED
    BY <1>1, <2>1 DEF CallInv
<1>3. CASE Revokes \/ Ticks
  <2>1. plan' = plan
    BY <1>3 DEF Revokes, Ticks
  <2> QED
    BY <1>1, <2>1 DEF CallInv
<1> QED
  BY <1>2, <1>3

\* A call that has been let in leaves the verification of the others alone.
LEMMA ServesElsewhere ==
    ASSUME Typed, NEW c \in Call, Serves(c) \/ GivesUp(c) \/ Cancelled(c)
    PROVE  /\ UNCHANGED <<revoked, auth>>
           /\ \A d \in Call : pc[d] = "asking" => pc'[d] = "asking"
           /\ \A d \in Call : pc'[d] = "accepted" => pc[d] = "accepted"
<1>1. UNCHANGED <<revoked, auth>>
  BY DEF Serves, Queues, Sends, Fails, Receives, GivesUp, Cancelled, Ends, odoo
<1>2. pc[c] # "asking"
  BY DEF Serves, Queues, Sends, Fails, Receives, GivesUp, Cancelled, Served
<1>3. \E step \in {"queued", "sending", "delay", "done"} : pc' = [pc EXCEPT ![c] = step]
  BY DEF Serves, Queues, Sends, Fails, Receives, GivesUp, Cancelled, Ends, Tells, Goes
<1> QED
  BY <1>1, <1>2, <1>3 DEF Typed

\* Only a cached identity and an answer of Odoo let a call in.
LEMMA AcceptedBy ==
    ASSUME Typed, [Next]_vars, NEW c \in Call, pc[c] # "accepted", pc'[c] = "accepted"
    PROVE  Hits(c) \/ Accepts(c)
<1>1. CASE \E d \in Call : Verifies(d) \/ Identifies(d)
  <2>1. PICK d \in Call : Verifies(d) \/ Identifies(d)
    BY <1>1
  <2>2. CASE Hits(d) \/ Accepts(d)
    BY <2>2 DEF Hits, Accepts, Goes, Typed
  <2>3. CASE Asks(d) \/ Rejects(d) \/ Identifies(d)
    BY <2>3 DEF Asks, Rejects, Identifies, Tells, Goes, Typed
  <2> QED
    BY <2>1, <2>2, <2>3 DEF Verifies
<1>2. CASE \E d \in Call : Serves(d) \/ GivesUp(d) \/ Cancelled(d)
  BY <1>2, ServesElsewhere
<1>3. CASE \E d \in Call : \E n \in DOMAIN work[d] : Works(d, n)
  <2>1. PICK d \in Call : \E n \in DOMAIN work[d] : Works(d, n)
    BY <1>3
  <2>2. pc' = pc
    BY <2>1, WorksFacts DEF Becomes
  <2> QED
    BY <2>2
<1>4. CASE Approves \/ Revokes \/ Ticks \/ UNCHANGED vars
  BY <1>4 DEF Approves, Revokes, Ticks, vars
<1> QED
  BY <1>1, <1>2, <1>3, <1>4 DEF Next

(***************************************************************************)
(* Spec => []Inv and what follows from it.                                 *)
(***************************************************************************)
LEMMA InvStep ==
    ASSUME Inv, [Next]_vars
    PROVE  Inv'
<1>1. Typed /\ LineInv /\ KeyInv /\ \A d \in Call : CallInv(d)
  BY DEF Inv
<1>2. CASE \E c \in Call : Verifies(c) \/ Identifies(c)
  BY <1>1, <1>2, VerifiesTyped, VerifiesLine, VerifiesKey, VerifiesCalls DEF Inv
<1>3. CASE \E c \in Call : Serves(c) \/ GivesUp(c) \/ Cancelled(c)
  <2>1. PICK c \in Call : Serves(c) \/ GivesUp(c) \/ Cancelled(c)
    BY <1>3
  <2>2. UNCHANGED <<revoked, auth>> /\ \A d \in Call : pc[d] = "asking" => pc'[d] = "asking"
    BY <1>1, <2>1, ServesElsewhere
  <2> QED
    BY <1>1, <2>1, <2>2, ServesTyped, ServesLine, KeyKeeps, ServesCalls DEF Inv
<1>4. CASE \E c \in Call : \E n \in DOMAIN work[c] : Works(c, n)
  <2>1. PICK c \in Call : \E n \in DOMAIN work[c] : Works(c, n)
    BY <1>4
  <2>2. PICK n \in DOMAIN work[c] : Works(c, n)
    BY <2>1
  <2>3. UNCHANGED <<revoked, auth, pc, line>>
    BY <1>1, <2>2, WorksFacts DEF Becomes
  <2>4. LineInv'
    BY <1>1, <2>3 DEF LineInv, InLine
  <2> QED
    BY <1>1, <2>2, <2>3, <2>4, WorksTyped, KeyKeeps, WorksCalls DEF Inv
<1>5. CASE Approves \/ Revokes \/ Ticks
  <2>1. UNCHANGED <<pc, line>>
    BY <1>5 DEF Approves, Revokes, Ticks
  <2>2. LineInv'
    BY <1>1, <2>1 DEF LineInv, InLine
  <2> QED
    BY <1>1, <1>5, <2>2, WorldTyped, WorldKey, WorldCalls DEF Inv
<1>6. CASE UNCHANGED vars
  <2>1. UNCHANGED <<now, revoked, cached, plan, pc, asked, identity, work, line, told, later, safe>>
    BY <1>6 DEF vars
  <2>2. Typed'
    BY <1>1, <2>1 DEF Typed
  <2>3. LineInv'
    BY <1>1, <2>1 DEF LineInv, InLine
  <2>4. KeyInv'
    BY <1>1, <2>1 DEF KeyInv
  <2>5. \A d \in Call : CallInv(d)'
    BY <1>1, <2>1 DEF CallInv
  <2> QED
    BY <2>2, <2>3, <2>4, <2>5 DEF Inv
<1> QED
  BY <1>2, <1>3, <1>4, <1>5, <1>6 DEF Next

\* The inductive invariant holds in every state, for any calls and settings.
THEOREM Invariance == Spec => []Inv
<1>1. Init => Inv
  BY InvInit
<1>2. Inv /\ [Next]_vars => Inv'
  BY InvStep
<1> QED
  BY <1>1, <1>2, PTL DEF Spec

\* Types, and that the calls in the line are exactly those which wait or are
\* served, the first of them being served (WaitingLine used by _execute).
THEOREM TypeCorrect == Spec => []TypeOK
<1>1. Inv => TypeOK
  BY DEF Inv, Typed, LineInv, TypeOK, Stage, Waiting
<1> QED
  BY <1>1, Invariance, PTL

\* What the agent is told is true, however many executions Odoo still has
\* under way for calls that the sidecar has given up.
THEOREM AnswersAreTrueHolds == Spec => []AnswersAreTrue
<1>1. ASSUME Inv
      PROVE  AnswersAreTrue
  <2>1. ASSUME NEW c \in Call
        PROVE  /\ told[c] = "executed" => plan.state = "executed"
               /\ told[c] \in {"refused", "not_executed"} =>
                     /\ plan.by # c
                     /\ c \notin safe =>
                           \A n \in DOMAIN work[c] : work[c][n] \notin {"travelling", "running"}
               /\ c \in later => told[c] # "not_executed"
    <3>1. CallInv(c) /\ work[c] \in Seq(Stage)
      BY <1>1 DEF Inv, Typed
    <3>2. plan.by = c => 1 \in DOMAIN work[c]
      BY <3>1 DEF CallInv
    <3> QED
      BY <3>1, <3>2 DEF CallInv
  <2> QED
    BY <2>1 DEF AnswersAreTrue
<1> QED
  BY <1>1, Invariance, PTL

\* A key is accepted for at most RequestTimeout + CacheTTL after it has been
\* withdrawn, however its verification by Odoo and the withdrawal overlap.
THEOREM IdentityIsFreshHolds == Spec => IdentityIsFresh
<1>1. ASSUME Inv, [Next]_vars
      PROVE  [\A c \in Call, r \in revoked :
                pc[c] # "accepted" /\ pc'[c] = "accepted" =>
                    now < r + RequestTimeout + CacheTTL \/ now <= r + RequestTimeout]_vars
  <2>1. SUFFICES ASSUME NEW c \in Call, NEW r \in revoked,
                        pc[c] # "accepted", pc'[c] = "accepted"
                 PROVE  now < r + RequestTimeout + CacheTTL \/ now <= r + RequestTimeout
    OBVIOUS
  <2>2. Hits(c) \/ Accepts(c)
    BY <1>1, <2>1, AcceptedBy DEF Inv
  <2>3. r \in Nat /\ now \in Nat /\ asked[c] \in Nat
        /\ (cached = {} \/ \E t \in 0 .. now + CacheTTL : cached = {t})
    BY <1>1 DEF Inv, Typed
  <2>4. CASE Hits(c)
    <3>1. PICK t \in cached : now < t
      BY <2>4 DEF Hits, Fresh
    <3>2. t <= r + RequestTimeout + CacheTTL /\ t \in Nat
      BY <1>1, <2>3 DEF Inv, KeyInv
    <3> QED
      BY <2>3, <3>1, <3>2
  <2>5. CASE Accepts(c)
    <3>1. asked[c] <= r /\ now <= asked[c] + RequestTimeout
      BY <1>1, <2>5 DEF Inv, KeyInv, Accepts
    <3> QED
      BY <2>3, <3>1
  <2> QED
    BY <2>2, <2>4, <2>5
<1> QED
  BY <1>1, Invariance, PTL DEF Spec, IdentityIsFresh
================================================================================
