--------------------------------- MODULE Policy --------------------------------
(***************************************************************************)
(* What a profile allows on one model (profile.py), and what the operations *)
(* of service.py answer and prepare under it: operators only, on           *)
(*                                                                         *)
(*   c     what a manager and an administrator have configured             *)
(*   rs    the records of the model: rs[r] is what record r holds, a value *)
(*         of every field, or Gone                                         *)
(*                                                                         *)
(* An optional policy is a set of at most one.  The validation of the form *)
(* of the inputs (types, lengths, patterns) is left out, and so are        *)
(* companies, record rules and field groups, which Odoo applies itself.    *)
(***************************************************************************)
EXTENDS Integers, FiniteSets, Sequences, Functions

CONSTANTS
    Record,         \* record ids
    Field,          \* fields of the model, but for the id
    Value,          \* what a record may hold: functions on Field
    Gone,           \* what stands for a record that does not exist
    Always,         \* display_name
    ModelOrder,     \* the order of the model's records, its _order
    MaxOffset,      \* the largest offset a search may ask for
    MaxReport,      \* at most so many records in one report
    Binary, Sensitive, Magic, ReadonlyField     \* kinds of fields

ASSUME FieldsAssumption ==
    /\ Always \subseteq Magic
    /\ Binary \cup Sensitive \cup Magic \cup ReadonlyField \subseteq Field
    /\ \A v \in Value : DOMAIN v = Field
ASSUME RecordsAssumption == IsFiniteSet(Record) /\ Gone \notin Value

(***************************************************************************)
(* What a client may ask for besides: a condition is the set of records and *)
(* contents that satisfy it, an order the key it sorts them by.  Either may *)
(* look at the id and at the fields it names, and at nothing else.         *)
(***************************************************************************)
Agree(v, w, fs) == \A f \in fs : v[f] = w[f]

IsCondition(d) ==
    /\ d.fields \subseteq Field /\ d.holds \subseteq Record \X Value
    /\ \A r \in Record, v, w \in Value :
        Agree(v, w, d.fields) => (<<r, v>> \in d.holds <=> <<r, w>> \in d.holds)

IsOrder(o) ==
    /\ o.fields \subseteq Field /\ o.key \in [Record \X Value -> Int]
    /\ \A r \in Record, v, w \in Value :
        Agree(v, w, o.fields) => o.key[<<r, v>>] = o.key[<<r, w>>]

ASSUME OrderAssumption == IsOrder(ModelOrder)
ASSUME LimitsAssumption == MaxOffset \in Nat /\ MaxReport \in Nat

Op == {"read", "create", "write", "unlink", "aggregate"}
Least(m, n) == IF m < n THEN m ELSE n

(***************************************************************************)
(* ConnectMcpModelPolicy: names, limit and domain of an explicit policy.   *)
(***************************************************************************)
RecordLimit(c, own) == Least(IF own = 0 THEN c.maxRecords ELSE own, c.maxRecords)

\* Constraints of the tables: what may be configured at all.
AllowablePolicy(c, e) ==
    /\ c.explicit = {e} /\ c.kind \notin {"blocked", "transient"}
    /\ e.readFields \cup e.writeFields \subseteq Field
    /\ e.domain \subseteq Value /\ e.allows \subseteq Op /\ e.maxRecords \in Nat

Allowable(c) ==
    /\ {c.maxRecords, c.maxBatch} \subseteq Nat \ {0}
    /\ c.default \in {"explicit", "read", "write"}
    /\ \A e \in c.explicit : AllowablePolicy(c, e)

\* Models the fallback covers: not the blocked ones, and not the guarded ones,
\* which only an explicit policy exposes.
CoveredKinds == {"ordinary", "readonly"}

OfExplicit(c, e) ==
    [allows |-> {op \in e.allows : op = "aggregate" => c.aggregate},
     limit |-> RecordLimit(c, e.maxRecords),
     domain |-> e.domain,
     readable |-> {f \in e.readFields \cup Always : f \in Binary => e.binaryRead},
     writable |-> {f \in e.writeFields : f \in Binary => e.binaryWrite}]

(***************************************************************************)
(* GlobalModelPolicy: the fallback of the whole profile.                   *)
(***************************************************************************)
GlobalOps(c) ==
    LET writable == c.kind # "readonly" IN
    {op \in Op : CASE op = "read" -> c.default \in {"read", "write"}
                   [] op = "aggregate" -> c.default \in {"read", "write"} /\ c.aggregate
                   [] op = "create" -> c.globalCreate /\ writable
                   [] op = "write" -> c.default = "write" /\ writable
                   [] op = "unlink" -> c.globalUnlink /\ writable}

GlobalPolicy(c) ==
    [allows |-> GlobalOps(c),
     limit |-> c.maxRecords,
     domain |-> Value,
     readable |-> Field \ (Sensitive \cup Binary),
     writable |-> Field \ (Sensitive \cup Binary \cup Magic \cup ReadonlyField)]

(***************************************************************************)
(* ConnectMcpProfile._get_policy, and _model_policy, which also asks Odoo   *)
(* for the user's right on the model.                                      *)
(***************************************************************************)
Active(c) == {e \in c.explicit : e.active}

\* An archived policy counts as none: the fallback applies again.
GetPolicy(c, op) ==
    {p \in IF Active(c) # {} THEN {OfExplicit(c, e) : e \in Active(c)}
           ELSE IF c.kind \in CoveredKinds THEN {GlobalPolicy(c)} ELSE {} :
        op \in p.allows}

Right(op) == IF op = "aggregate" THEN "read" ELSE op
ModelPolicy(c, op) == {p \in GetPolicy(c, op) : Right(op) \in c.rights}

\* Mutant: a profile that lets only delete anywhere is overlooked.
X_HasGlobalAccess(c) == c.default # "explicit" \/ c.globalCreate

\* models.list: the operations of the model, if it is among those looked at.
HasGlobalAccess(c) == c.default # "explicit" \/ c.globalCreate \/ c.globalUnlink
ModelsList(c) ==
    IF Active(c) # {} \/ (HasGlobalAccess(c) /\ c.kind # "transient")
    THEN {op \in Op : GetPolicy(c, op) # {} /\ Right(op) \in c.rights}
    ELSE {}

\* models.describe: operations whatever the user's rights, the readable fields
\* and which of them are writable; capabilities: the explicit policies.
Describe(c) ==
    {[operations |-> p.allows, fields |-> p.readable,
      writable |-> IF "write" \in p.allows THEN p.writable \cap p.readable ELSE {}] :
        p \in {q \in ModelPolicy(c, "read") : c.schema}}
Capabilities(c) == UNION {OfExplicit(c, e).allows : e \in Active(c)}

(***************************************************************************)
(* Reads.  Each is the set of answers that are possible: {} is a refusal.  *)
(* A request q for a search has the fields it asks for, a condition, at    *)
(* most one order, an offset and a limit.                                  *)
(***************************************************************************)
Governed(p, rs) == {r \in Record : rs[r] \in p.domain}

\* _records_in_policy: all of them, or nothing.
InPolicy(p, rs, ids) == ids \subseteq Governed(p, rs)

\* _combined_domain: the client's condition may be about any field at all.
Matching(p, rs, d) == {r \in Governed(p, rs) : <<r, rs[r]>> \in d.holds}

\* The ways to list the records S in the order o: those with equal keys come
\* as they may, and in another way when they are asked for again.
Arrangements(o, rs, S) ==
    {a \in Injection(1 .. Cardinality(S), S) :
        \A i, j \in DOMAIN a : i < j => o.key[<<a[i], rs[a[i]]>>] <= o.key[<<a[j], rs[a[j]]>>]}

\* Mutant: no record beyond the page is looked for.
X_Page(all, offset, n) ==
    LET found == SubSeq(all, offset + 1, Least(offset + n, Len(all)))
    IN [ids |-> SubSeq(found, 1, Least(n, Len(found))), more |-> Len(found) > n]

\* The page of a list at an offset: one record more than it holds is looked for.
Page(all, offset, n) ==
    LET found == SubSeq(all, offset + 1, Least(offset + n + 1, Len(all)))
    IN [ids |-> SubSeq(found, 1, Least(n, Len(found))), more |-> Len(found) > n]

Sorting(q) == IF q.order = {} THEN {ModelOrder} ELSE q.order
Found(p, rs, q) ==
    UNION {Arrangements(o, rs, Matching(p, rs, q.condition)) : o \in Sorting(q)}
Pages(p, rs, q) ==
    {Page(all, q.offset, Least(q.limit, p.limit)) :
        all \in {a \in Found(p, rs, q) : q.offset <= MaxOffset}}

\* Mutant: the fields of the order are not looked at.
X_Named(q) == q.fields

\* The fields that must be readable: those asked for and, in _parse_order, those
\* of the client's order.
Named(q) == q.fields \cup UNION {o.fields : o \in q.order}

Reader(c, op, fs) == {p \in ModelPolicy(c, op) : fs \subseteq p.readable}
Contents(fs, v) == [f \in fs |-> v[f]]
Rows(fs, rs, list) ==
    [j \in DOMAIN list |-> [id |-> list[j], values |-> Contents(fs, rs[list[j]])]]

Search(c, rs, q) ==
    {[rows |-> Rows(q.fields, rs, page.ids), more |-> page.more] :
        page \in UNION {Pages(p, rs, q) : p \in Reader(c, "read", Named(q))}}

Count(c, rs, d) == {Cardinality(Matching(p, rs, d)) : p \in Reader(c, "read", {})}

\* What the groups are made of: the values that are grouped and aggregated.
Aggregate(c, rs, fs, d) ==
    {[r \in Matching(p, rs, d) |-> Contents(fs, rs[r])] :
        p \in {q \in Reader(c, "aggregate", fs) : c.aggregate}}

\* The records are looked for before they are read: they come in the model's order.
Read(c, rs, fs, ids) ==
    {Rows(fs, rs, list) :
        list \in UNION {Arrangements(ModelOrder, rs, ids) :
                            p \in {q \in Reader(c, "read", fs) :
                                    /\ Cardinality(ids) \in 1 .. q.limit
                                    /\ InPolicy(q, rs, ids)}}}

\* An attachment is any content of its record, a field of it among them.
ReadAttachment(c, rs, r) ==
    {rs[r] : p \in {q \in Reader(c, "read", {}) : c.attachments /\ InPolicy(q, rs, {r})}}

\* A report prints what its template takes from the database.
RenderReport(c, rs, ids) ==
    {rs : p \in {q \in Reader(c, "read", {}) :
                    /\ c.reports /\ InPolicy(q, rs, ids)
                    /\ Cardinality(ids) \in 1 .. Least(MaxReport, q.limit)}}

(***************************************************************************)
(* Changes.  A payload pl names an action, the records ids (for            *)
(* record.create, how many: count) and the fields that are written, with   *)
(* their new values in a value.                                            *)
(***************************************************************************)
\* _write_values; the check of readonly applies to explicit policies too.
WriteValues(p, fs) == fs # {} /\ fs \subseteq p.writable \ (Magic \cup ReadonlyField)

PrepareCreate(c, pl) ==
    \E p \in ModelPolicy(c, "create") :
        pl.count \in 1 .. c.maxBatch /\ WriteValues(p, pl.fields)

PrepareUpdate(c, rs, pl) ==
    \E p \in ModelPolicy(c, "write") :
        /\ Cardinality(pl.ids) \in 1 .. c.maxBatch
        /\ WriteValues(p, pl.fields) /\ InPolicy(p, rs, pl.ids)

PrepareDelete(c, rs, pl) ==
    \E p \in ModelPolicy(c, "unlink") :
        Cardinality(pl.ids) \in 1 .. c.maxBatch /\ InPolicy(p, rs, pl.ids)

\* message.post, activity.schedule, attachment.create: one record, and the
\* switch of the profile.
PrepareOnRecord(c, rs, pl) ==
    \E p \in ModelPolicy(c, "write") :
        /\ pl.action \in c.features
        /\ Cardinality(pl.ids) = 1 /\ InPolicy(p, rs, pl.ids)

\* method.call: a method policy, and read access to the records, if any.
PrepareMethod(c, rs, pl) ==
    \E m \in {n \in c.method : n.active}, p \in ModelPolicy(c, "read") :
        /\ Cardinality(pl.ids) <= m.maxRecords /\ InPolicy(p, rs, pl.ids)
        /\ pl.ids = {} => m.allowModelMethod

OnRecord == {"message.post", "activity.schedule", "attachment.create"}

\* _prepare_action
Prepare(c, rs, pl) ==
    \/ pl.action = "record.create" /\ PrepareCreate(c, pl)
    \/ pl.action = "record.update" /\ PrepareUpdate(c, rs, pl)
    \/ pl.action = "record.delete" /\ PrepareDelete(c, rs, pl)
    \/ pl.action \in OnRecord /\ PrepareOnRecord(c, rs, pl)
    \/ pl.action = "method.call" /\ PrepareMethod(c, rs, pl)

Risk(c, pl) ==
    CASE pl.action \in {"message.post", "activity.schedule"} -> "low"
      [] pl.action = "record.delete" -> "high"
      [] pl.action = "method.call" -> (CHOOSE m \in c.method : m.active).risk
      [] OTHER -> "medium"

\* Mutant: what a method policy calls low risk is approved automatically.
X_AutoApproved(c, pl) == c.autoApprove /\ Risk(c, pl) = "low"

AutoApproved(c, pl) ==
    c.autoApprove /\ Risk(c, pl) = "low" /\ pl.action \in {"message.post", "activity.schedule"}

\* The diff that a preview answers: what an update would replace, but for what
\* has a sensitive name, and the names of the records it updates or deletes.
Seen(pl) ==
    CASE pl.action = "record.update" -> Always \cup (pl.fields \ Sensitive)
      [] pl.action = "record.delete" -> Always
      [] OTHER -> {}
Diff(c, rs, pl) ==
    {[r \in ids |-> Contents(Seen(pl), rs[r])] : ids \in {x \in {pl.ids} : Prepare(c, rs, pl)}}

\* What a change may make of the records, and whose rows it writes.  Odoo may
\* compute other fields of what is written; new records get ids that are free;
\* and a business method may do anything to any record, whatever it is called on.
Outcomes(rs, pl) ==
    LET Setting(ids, vs) ==
            {[records |-> [r \in Record |-> IF r \in ids THEN new[r] ELSE rs[r]], ids |-> ids] :
                new \in [ids -> vs]}
        Written == {v \in Value : Agree(v, pl.value, pl.fields)}
        Free(n) == {ids \in SUBSET {r \in Record : rs[r] = Gone} : Cardinality(ids) = n}
    IN CASE pl.action = "record.create" -> UNION {Setting(ids, Written) : ids \in Free(pl.count)}
         [] pl.action = "record.update" -> Setting(pl.ids, Written)
         [] pl.action = "record.delete" -> Setting(pl.ids, {Gone})
         [] pl.action = "method.call" ->
                UNION {Setting(ids, Value \cup {Gone}) : ids \in SUBSET Record}
         [] OTHER -> {[records |-> rs, ids |-> pl.ids]}

\* Mutant: what a change makes of the records is not looked at.
X_Postcondition(c, pl, new) == TRUE

\* _enforce_forced_domain_postcondition
Postcondition(c, pl, new) ==
    LET op == IF pl.action = "record.create" THEN "create" ELSE "write" IN
    pl.action \in {"record.create", "record.update"} =>
        \A p \in ModelPolicy(c, op) : InPolicy(p, new.records, new.ids)

\* _execute_action: the action is prepared again, on what holds now.
Execute(c, rs, pl) ==
    {new \in Outcomes(rs, pl) : Prepare(c, rs, pl) /\ Postcondition(c, pl, new)}
================================================================================
