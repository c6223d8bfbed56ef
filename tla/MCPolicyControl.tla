---------------------------- MODULE MCPolicyControl ----------------------------
(***************************************************************************)
(* Small instances of PolicyControl for TLC.                               *)
(***************************************************************************)
EXTENDS PolicyControl, TLC

MCField == {"name", "state", "secret", "image", "total"}

\* What a record may hold: its state and its secret matter.
Holds(state, secret) ==
    [f \in MCField |-> CASE f = "state" -> state [] f = "secret" -> secret [] OTHER -> 0]
OpenValue == {Holds(1, 0), Holds(1, 1)}
MCValue == OpenValue \cup {Holds(2, 0)}

OrderBy(f) == [fields |-> {f}, key |-> [x \in Record \X MCValue |-> x[2][f]]]
MCModelOrder == OrderBy("secret")
ById == [fields |-> {}, key |-> [x \in Record \X MCValue |-> x[1]]]

Anything == [fields |-> {}, holds |-> Record \X MCValue]
Secrets == [fields |-> {"secret"}, holds |-> {x \in Record \X MCValue : x[2]["secret"] = 1}]

Query(fs, d, o, n) == [fields |-> fs, condition |-> d, order |-> o, offset |-> 0, limit |-> n]
MCQueries ==
    {Query({"state"}, Anything, {}, 1), Query({"state"}, Anything, {ById}, 1),
     Query({"name"}, Anything, {OrderBy("state")}, 2), Query({}, Secrets, {ById}, 1),
     Query({}, Anything, {OrderBy("secret")}, 1), Query({"secret"}, Anything, {}, 2)}

\* Explicit policies: the ordinary one, a restricted one, one that is archived.
Policies ==
    {[active |-> TRUE, allows |-> Op, maxRecords |-> 0, domain |-> Value,
      readFields |-> MCField, writeFields |-> MCField,
      binaryRead |-> FALSE, binaryWrite |-> TRUE],
     [active |-> TRUE, allows |-> {"read", "write", "aggregate"}, maxRecords |-> 1,
      domain |-> OpenValue, readFields |-> {"state"}, writeFields |-> {"state"},
      binaryRead |-> TRUE, binaryWrite |-> FALSE],
     [active |-> FALSE, allows |-> Op, maxRecords |-> 2, domain |-> Value,
      readFields |-> MCField, writeFields |-> MCField,
      binaryRead |-> TRUE, binaryWrite |-> TRUE]}

Base ==
    [maxRecords |-> 2, aggregate |-> TRUE, default |-> "explicit", explicit |-> {},
     globalCreate |-> FALSE, globalUnlink |-> FALSE, attachments |-> TRUE,
     reports |-> TRUE, schema |-> TRUE, autoApprove |-> TRUE, maxBatch |-> 2,
     features |-> OnRecord, kind |-> "ordinary", rights |-> Op, method |-> {}]

Restricted == CHOOSE e \in Policies : e.maxRecords = 1

MCLive ==
    {[Base EXCEPT !.default = "write", !.globalCreate = TRUE, !.globalUnlink = TRUE,
                  !.maxBatch = 1],
     [Base EXCEPT !.explicit = {[Restricted EXCEPT !.allows = Op]},
                  !.method = {[active |-> TRUE, maxRecords |-> 2, risk |-> "low",
                               allowModelMethod |-> FALSE]}],
     [Base EXCEPT !.default = "read", !.autoApprove = FALSE, !.features = {},
                  !.method = {[active |-> TRUE, maxRecords |-> 1, risk |-> "high",
                               allowModelMethod |-> TRUE]}],
     [Base EXCEPT !.default = "write", !.kind = "readonly", !.rights = {"read", "write"}]}

\* Every kind of model and explicit policy under each default, with some of the
\* other switches and of the user's rights.
Defaults ==
    {<<"explicit", FALSE, FALSE>>, <<"explicit", TRUE, FALSE>>, <<"explicit", FALSE, TRUE>>,
     <<"read", FALSE, TRUE>>, <<"write", TRUE, FALSE>>}

\* The rights besides all of them.
SomeRights(d) == IF d[3] THEN {"read", "unlink"} ELSE {"write", "create"}

Grid ==
    {[Base EXCEPT !.default = d[1], !.globalCreate = d[2], !.globalUnlink = d[3],
                  !.aggregate = all, !.attachments = all, !.kind = k, !.explicit = e,
                  !.rights = IF all THEN Op ELSE SomeRights(d),
                  !.maxRecords = IF all THEN 2 ELSE 1] :
        d \in Defaults, all \in BOOLEAN,
        k \in {"ordinary", "readonly", "guarded", "blocked", "transient"},
        e \in {{}} \cup {{p} : p \in Policies}}

MCProfiles == MCLive \cup {c \in Grid : Allowable(c)}

Payload(action, ids, fs, v, n) ==
    [action |-> action, ids |-> ids, fields |-> fs, value |-> v, count |-> n]

MCPayloads ==
    {Payload("record.create", {}, {"state"}, Holds(s, 0), s) : s \in {1, 2}}
    \cup {Payload("record.update", {1, 2}, {"state"}, Holds(2, 0), 0),
          Payload("record.update", {1}, {"state", "image"}, Holds(1, 0), 0),
          Payload("record.delete", {1, 2}, {}, Holds(1, 0), 0),
          Payload("message.post", {1}, {}, Holds(1, 0), 0),
          Payload("attachment.create", {2}, {}, Holds(1, 0), 0),
          Payload("activity.schedule", {1, 2}, {}, Holds(1, 0), 0),
          Payload("method.call", {1}, {}, Holds(1, 0), 0),
          Payload("method.call", {}, {}, Holds(1, 0), 0)}
================================================================================
