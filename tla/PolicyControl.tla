----------------------------- MODULE PolicyControl -----------------------------
(***************************************************************************)
(* A profile at work: what it reveals and what one change plan may do while *)
(* managers edit the profile, administrators the user's rights, and other  *)
(* users of Odoo the records (service.py on profile.py).                   *)
(*                                                                         *)
(* The execution of a plan is a transaction: it works on the profile and   *)
(* the records of its snapshot, and PostgreSQL refuses its commit, to start *)
(* it again, if another transaction has committed a record it writes.      *)
(* Expiry, rejection, crashes and everything else about the life of a plan *)
(* are ChangeControl's.                                                    *)
(***************************************************************************)
EXTENDS Policy

CONSTANTS
    Profiles,       \* the configurations looked at
    Live,           \* bound: those under which plans are made and edited
    Queries,        \* bound: the searches agents ask for
    Payloads,       \* bound: the changes agents ask for
    Contended       \* bound: the records others change meanwhile

ASSUME ProfilesAssumption == Live \subseteq Profiles /\ \A c \in Profiles : Allowable(c)
ASSUME QueriesAssumption ==
    \A q \in Queries :
        /\ DOMAIN q = {"fields", "condition", "order", "offset", "limit"}
        /\ q.fields \subseteq Field /\ IsCondition(q.condition)
        /\ \A o \in q.order : IsOrder(o) /\ q.order = {o}
        /\ q.offset \in Nat /\ q.limit \in Nat \ {0}
ASSUME PayloadsAssumption ==
    \A pl \in Payloads : pl.ids \subseteq Record /\ pl.fields \subseteq Field /\ pl.value \in Value
ASSUME ContendedAssumption == Contended \subseteq Record

VARIABLES
    config,         \* the configuration
    records,        \* the records of the model
    plan,           \* the plan: its phase, its payload, who approved it
    view,           \* the snapshot of its execution, if it runs
    dirty           \* records that others have changed since then

vars == <<config, records, plan, view, dirty>>

Phase == {"none", "pending", "approved", "executing", "executed"}
States == [Record -> Value \cup {Gone}]

TypeOK ==
    /\ config \in Profiles
    /\ records \in States
    /\ plan.phase \in Phase
    /\ plan.phase # "none" => plan.payload \in Payloads
    /\ plan.by \in {"nobody", "profile", "manager"}
    /\ plan.by = "nobody" <=> plan.phase \in {"none", "pending"}
    /\ Cardinality(view) = IF plan.phase = "executing" THEN 1 ELSE 0
    /\ \A v \in view : v.config \in Profiles /\ v.records \in States
    /\ dirty \subseteq Record
    \* What nobody else has changed is as the execution sees it.
    /\ \A v \in view, r \in Record \ dirty : v.records[r] = records[r]
    /\ plan.phase # "executing" => dirty = {}

Init ==
    /\ config \in Profiles
    /\ records \in States
    /\ plan = [phase |-> "none", by |-> "nobody"]
    /\ view = {} /\ dirty = {}
-------------------------------------------------------------------------------
\* A manager edits the profile, or an administrator the user's rights.
Edits(c) ==
    /\ config \in Live /\ config' = c
    /\ UNCHANGED <<records, plan, view, dirty>>

\* Another user, or another program, changes a record.
OthersChange(r, v) ==
    /\ records' = [records EXCEPT ![r] = v]
    /\ dirty' = IF plan.phase = "executing" THEN dirty \cup {r} ELSE dirty
    /\ UNCHANGED <<config, plan, view>>

\* changes.preview
Previews(pl) ==
    /\ plan.phase = "none" /\ config \in Live
    /\ Prepare(config, records, pl)
    /\ plan' = IF AutoApproved(config, pl)
               THEN [phase |-> "approved", payload |-> pl, by |-> "profile"]
               ELSE [phase |-> "pending", payload |-> pl, by |-> "nobody"]
    /\ UNCHANGED <<config, records, view, dirty>>

\* Mutant: the approval does not say whose it is.
X_Approves ==
    /\ plan.phase = "pending"
    /\ plan' = [plan EXCEPT !.phase = "approved"]
    /\ UNCHANGED <<config, records, view, dirty>>

Approves ==
    /\ plan.phase = "pending"
    /\ plan' = [plan EXCEPT !.phase = "approved", !.by = "manager"]
    /\ UNCHANGED <<config, records, view, dirty>>

\* changes.execute: the transaction starts and takes the plan.
Begins ==
    /\ plan.phase = "approved"
    /\ plan' = [plan EXCEPT !.phase = "executing"]
    /\ view' = {[config |-> config, records |-> records]}
    /\ UNCHANGED <<config, records, dirty>>

\* The transaction is over and leaves the plan in a phase.
Ends(phase) ==
    /\ plan' = [plan EXCEPT !.phase = phase]
    /\ view' = {} /\ dirty' = {}
    /\ UNCHANGED config

\* The records whose rows an action writes.  A message, an activity or an
\* attachment is a row of its own.
Writes(pl, new) == IF pl.action \in OnRecord THEN {} ELSE new.ids

\* What is committed: the records written, and the others as they are.
Commits ==
    /\ plan.phase = "executing"
    /\ \E v \in view : \E new \in Execute(v.config, v.records, plan.payload) :
        LET written == Writes(plan.payload, new) IN
        /\ written \cap dirty = {}
        /\ records' = [r \in Record |-> IF r \in written THEN new.records[r] ELSE records[r]]
    /\ Ends("executed")

\* It loses a conflict: it is rolled back, and run again or given up.
Conflicts ==
    /\ plan.phase = "executing"
    /\ \E v \in view : \E new \in Execute(v.config, v.records, plan.payload) :
        Writes(plan.payload, new) \cap dirty # {}
    /\ Ends("approved")
    /\ UNCHANGED records

\* The action is refused, by the policy or by Odoo (which may refuse anything):
\* the savepoint of execute_request takes everything back, and the plan may be
\* executed again later.
Refuses ==
    /\ plan.phase = "executing"
    /\ Ends("approved")
    /\ UNCHANGED records

Next ==
    \/ \E c \in Live : Edits(c)
    \/ \E r \in Contended, v \in Value \cup {Gone} : OthersChange(r, v)
    \/ \E pl \in Payloads : Previews(pl)
    \/ Approves \/ Begins \/ Commits \/ Conflicts \/ Refuses

Spec == Init /\ [][Next]_vars
-------------------------------------------------------------------------------
(***************************************************************************)
(* What was configured, in the words of the forms.                         *)
(***************************************************************************)
Ungoverned(c) == Active(c) = {} /\ c.kind \in CoveredKinds

Granted(c) ==
    {op \in Op :
        /\ Right(op) \in c.rights
        /\ op = "aggregate" => c.aggregate
        /\ \/ \E e \in Active(c) : op \in e.allows
           \/ /\ Ungoverned(c)
              /\ \/ op \in {"read", "aggregate"} /\ c.default # "explicit"
                 \/ /\ c.kind # "readonly"
                    /\ \/ op = "write" /\ c.default = "write"
                       \/ op = "create" /\ c.globalCreate
                       \/ op = "unlink" /\ c.globalUnlink}

Scope(c) == IF Ungoverned(c) THEN Value ELSE UNION {e.domain : e \in Active(c)}

Shown(c) ==
    {f \in Field : \/ Ungoverned(c) /\ f \notin Binary \cup Sensitive
                   \/ \E e \in Active(c) : /\ f \in e.readFields \cup Always
                                           /\ f \in Binary => e.binaryRead}
Changeable(c) ==
    {f \in Field \ (Magic \cup ReadonlyField) :
        \/ Ungoverned(c) /\ f \notin Binary \cup Sensitive
        \/ \E e \in Active(c) : f \in e.writeFields /\ (f \in Binary => e.binaryWrite)}

\* Configurations and records are looked at before there is a plan.
Anew == plan.phase = "none"

\* The four places that say what a profile allows agree: models.list lists
\* exactly what was granted, which is what the operations accept;
\* models.describe and the capabilities say no less of a model the user has
\* the rights on, and every readable field an update may write is described so.
AnswersAgree ==
    Anew =>
        /\ ModelsList(config) = Granted(config)
        /\ Granted(config) = {op \in Op : ModelPolicy(config, op) # {}}
        /\ {op \in Capabilities(config) : Right(op) \in config.rights}
               = (IF Active(config) # {} THEN Granted(config) ELSE {})
        /\ \A d \in Describe(config) :
            /\ {op \in d.operations : Right(op) \in config.rights} = Granted(config)
            /\ "write" \in Granted(config) => Changeable(config) \cap d.fields \subseteq d.writable

\* What the pages of a search show when a client asks for one after the other,
\* each at the offset after the last, until it is told that there are no more:
\* page[i] is the answer at the i-th offset, S what there is to be found.
FollowedWell(q, n, S, page) ==
    LET followed == {i \in DOMAIN page : \A j \in 0 .. i - 1 : page[j].more}
        rows == {x \in followed \X (1 .. n) : x[2] \in DOMAIN page[x[1]].ids}
        Entry(x) == page[x[1]].ids[x[2]]
        Key(o, r) == o.key[<<r, records[r]>>]
        Tied(r) == \E o \in Sorting(q), s \in S \ {r} : Key(o, s) = Key(o, r)
        ends == \E i \in followed : ~ page[i].more
    IN /\ \A i \in followed : Len(page[i].ids) <= n
       /\ \A x \in rows : Entry(x) \in S
       /\ \A x, y \in rows : Entry(x) = Entry(y) /\ x # y => x[1] # y[1] /\ Tied(Entry(x))
       /\ IF ends
          THEN /\ Cardinality(rows) = Cardinality(S)
               /\ \A r \in S : Tied(r) \/ \E x \in rows : Entry(x) = r
          ELSE MaxOffset < Cardinality(rows) /\ Cardinality(rows) < Cardinality(S)

\* A client that follows the pages of a search is shown as many rows as are
\* counted: these are the records that it could read by id and that satisfy its
\* condition, each of them once if no two tie in the order.  Each page is sorted
\* anew, so a record that ties with another may be repeated and the other
\* missed, on different pages.  It is stopped before the end only at the largest
\* offset, more rows than that being shown.  No page is larger than it asked for
\* or than the profile allows.
PagesAreComplete ==
    Anew =>
        \A q \in Queries : \A p \in Reader(config, "read", Named(q)) :
            LET n == Least(q.limit, p.limit)
                S == {r \in Record : /\ Read(config, records, q.fields, {r}) # {}
                                     /\ <<r, records[r]>> \in q.condition.holds}
                At(i) == Pages(p, records, [q EXCEPT !.offset = i * n])
                asked == {i \in 0 .. Cardinality(Record) : i * n <= MaxOffset}
            IN /\ n \in 1 .. config.maxRecords
               /\ Count(config, records, q.condition) = {Cardinality(S)}
               /\ \A page \in [asked -> UNION {At(i) : i \in asked}] :
                    (\A i \in asked : page[i] \in At(i)) => FollowedWell(q, n, S, page)

\* The sets of fields that agents ask for.
Requested == {q.fields : q \in Queries}

\* Whatever is answered needs what was granted for it, shows only fields that
\* were chosen, and asks by id only for records in the scope.
ReadsAreGranted ==
    LET granted == Granted(config)
        Within(ids) == Cardinality(ids) <= config.maxRecords
                       /\ \A r \in ids : records[r] \in Scope(config)
    IN /\ \A q \in Queries :
            /\ Search(config, records, q) # {} => "read" \in granted /\ Named(q) \subseteq Shown(config)
            /\ Count(config, records, q.condition) # {} => "read" \in granted
            /\ Aggregate(config, records, q.fields, q.condition) # {} =>
                    "aggregate" \in granted /\ q.fields \subseteq Shown(config)
       /\ \A fs \in Requested, ids \in SUBSET Record : Read(config, records, fs, ids) # {} =>
            "read" \in granted /\ fs \subseteq Shown(config) /\ Within(ids)
       /\ \A ids \in SUBSET Record : RenderReport(config, records, ids) # {} =>
            "read" \in granted /\ config.reports /\ Within(ids)
       /\ \A r \in Record : ReadAttachment(config, records, r) # {} =>
            "read" \in granted /\ config.attachments /\ Within({r})

\* A record holds something else: if it is out of the scope in both cases, or in
\* it and the same in the fields that are shown, no answer tells the difference.
\* But the fields that the client's own condition names, the model's own order,
\* and an update for its diff, need not be shown: those a client can find out.
HiddenStaysHidden ==
    \A r \in Record : \A v \in (Value \cup {Gone}) \ {records[r]} :
        LET others == [records EXCEPT ![r] = v]
            Hidden(fs) ==
                \/ {records[r], v} \cap Scope(config) = {}
                \/ /\ {records[r], v} \subseteq Scope(config)
                   /\ Agree(records[r], v, Shown(config) \cup fs)
            ByModel(q) == IF q.order = {} THEN ModelOrder.fields ELSE {}
        IN /\ \A q \in Queries :
                LET d == q.condition IN
                /\ Hidden(d.fields \cup ByModel(q)) =>
                        Search(config, others, q) = Search(config, records, q)
                /\ Hidden(d.fields) =>
                    /\ Count(config, others, d) = Count(config, records, d)
                    /\ Aggregate(config, others, q.fields, d) = Aggregate(config, records, q.fields, d)
           /\ Hidden(ModelOrder.fields) =>
                \A fs \in Requested, ids \in SUBSET Record :
                    Read(config, others, fs, ids) = Read(config, records, fs, ids)
           /\ \A pl \in Payloads : Hidden(Seen(pl)) => Diff(config, others, pl) = Diff(config, records, pl)

\* What reads and previews tell is what was granted and chosen to be shown, with
\* the exceptions named above.  What attachments and reports contain is not
\* limited to fields: only whose they are is.
ReadsStayInPolicy == Anew => ReadsAreGranted /\ HiddenStaysHidden

Executes == plan.phase = "executing" /\ plan'.phase = "executed"

\* The grant that an action needs.
Needs(pl) ==
    CASE pl.action = "record.create" -> "create"
      [] pl.action = "record.delete" -> "unlink"
      [] pl.action = "method.call" -> "read"
      [] OTHER -> "write"

\* A step that executes the plan on the snapshot v does what was granted, in
\* batches that are allowed: it takes records that are in the scope, still so
\* when it updates or deletes them, and leaves in the scope what it creates and
\* updates.  Which records a business method changes is not limited, only which
\* method may be called and on what.
StaysInPolicy(v) ==
    LET c == v.config
        pl == plan.payload
        InScope(rs, ids) == \A r \in ids : rs[r] \in Scope(c)
        created == {r \in Record : records[r] = Gone /\ records'[r] # Gone}
    IN /\ Needs(pl) \in Granted(c)
       /\ pl.action \in {"record.create", "record.update"} => pl.fields \subseteq Changeable(c)
       /\ pl.action # "record.create" => InScope(v.records, pl.ids)
       /\ pl.action \in {"record.update", "record.delete"} =>
            Cardinality(pl.ids) <= c.maxBatch /\ InScope(records, pl.ids)
       /\ pl.action = "record.update" => InScope(records', pl.ids)
       /\ pl.action = "record.create" =>
            Cardinality(created) <= c.maxBatch /\ InScope(records', created)
       /\ pl.action \in OnRecord => pl.action \in c.features /\ Cardinality(pl.ids) = 1
       /\ pl.action = "method.call" =>
            \E m \in c.method : /\ m.active /\ Cardinality(pl.ids) <= m.maxRecords
                                /\ pl.ids = {} => m.allowModelMethod

\* However long ago a plan was made and approved, and whatever has been edited
\* since: it stays in the policy as of when its execution began.
ChangesStayInPolicy == [][Executes => \A v \in view : StaysInPolicy(v)]_vars

\* A business record is changed by a plan only if a manager has approved that
\* plan: what a profile approves by itself leaves the records as they are, even
\* if a method is called low risk.
ManagersDecide ==
    [][Executes /\ records' # records => plan.by = "manager"]_vars
================================================================================
