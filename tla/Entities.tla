------------------------------ MODULE Entities ------------------------------
(* Whom a name means: datasage_entity_resolve looks a token or a reference *)
(* up for the model, and the preflight of a query binds the texts of its   *)
(* filters to identities again, on its own.  Both read master data that    *)
(* change between any two statements, through a collation that is looser   *)
(* than the normalization the program compares with.                       *)
EXTENDS Integers, Sequences, FiniteSets, SequencesExt

CONSTANTS Texts, Fold(_),  \* what names are made of; normalize_text
          Alike(_, _),     \* equal under the collation of the database
          Inside(_, _),    \* the first is a proper part of the second
          Short(_),        \* too short for a search by parts
          Types, Sources,  \* entity types; those with a master table
          Known,           \* known_entities: [type, aliases, values]
          Roles, TypeOf,   \* filter roles; the type of an input role, or None
          RolesOf,         \* roles_by_domain of a type, in the domain asked
          Metrics, Allowed, \* allowed_dimensions of a metric
          Literal,         \* roles whose values are source_exact
          Universe,        \* rows a master table may hold
          TypeLists,       \* entity_types arguments, None among them
          Requests,        \* [metric, filters], filters a set of texts by role
          MaxRows,         \* size of the master data, a bound
          RowLimit, CacheSize, MaxLookups,
          MaxIssued,       \* references given to the model, a bound
          MaxChanges,      \* changes of master data, a bound
          MaxAsks,         \* calls of a session, a bound
          None

(* The registry and the semantics, as entity-registry.yaml has them and    *)
(* _validate_registry checks them: a role of a type is named after no      *)
(* other type.                                                             *)
ASSUME EntitiesAssumption ==
    /\ None \notin Texts \cup Types \cup Roles \cup Metrics
    /\ Sources \subseteq Types /\ Literal \subseteq Roles
    /\ IsFiniteSet(Roles) /\ IsFiniteSet(Known) /\ RowLimit \in Nat
    /\ \A r \in Roles : TypeOf[r] \in Types \cup {None}
    /\ \A t \in Types : RolesOf[t] \subseteq Roles
    /\ \A t, u \in Types : t \in RolesOf[u] => t = u
    /\ \A m \in Metrics : Allowed[m] \subseteq Roles
    /\ \A k \in Known : k.type \notin Sources
    /\ \A r \in Roles \ Literal : TypeOf[r] # None => TypeOf[r] \in Sources
    /\ \A a, b \in Texts : Fold(a) = Fold(b) => Alike(a, b)

(* Master data have an identity in every row; a filter has a value.        *)
ASSUME InputsAssumption ==
    /\ IsFiniteSet(Universe) /\ None \notin UNION {[V -> Universe] : V \in SUBSET Texts}
    /\ \A r \in Universe : /\ r.type \in Sources /\ r.id \in Texts
                           /\ {r.code, r.name} \subseteq Texts \cup {None}
    /\ \A q \in Requests : /\ q.metric \in Metrics
                           /\ \E R \in SUBSET Roles : q.filters \in [R -> (SUBSET Texts) \ {{}}]

VARIABLES master,   \* rows of the master tables
          refs,     \* _OPAQUE_REF_CACHE, the oldest first
          reply,    \* the answer of datasage_entity_resolve just given
          call,     \* the request whose filters are being bound
          cache,    \* resolution_cache of a datasage_query call
          issued,   \* history: references the model was given
          seen,     \* history: master data each lookup of the call read
          asks, changes

vars == <<master, refs, reply, call, cache, issued, seen, asks, changes>>

-----------------------------------------------------------------------------
(* Names and rows.                                                         *)
Same(a, b) == a # None /\ Fold(a) = Fold(b)
TextsOf(row) == {row.id, row.code, row.name} \ {None}
Recalls(row, text) == \E x \in {row.name, row.code} \ {None} : Alike(x, text)
RecallsPart(row, text) ==
    \E x \in {row.name, row.code} \ {None} : Alike(x, text) \/ Inside(text, x)

(* _known_matches.                                                         *)
KnownAs(text, types) ==
    {k \in Known : k.type \in types /\ \E a \in k.aliases : Same(a, text)}

(* _roles_for.                                                             *)
RolesFor(type, metric) ==
    IF metric = None THEN RolesOf[type] ELSE RolesOf[type] \cap Allowed[metric]

(* _build_candidate_query: identities match byte for byte and in exact     *)
(* lookups only; the rows come sorted by rank, up to the limit.            *)
Exact(row, text) == text \in {row.id, row.code} \/ Recalls(row, text)
Found(T, types, text, exactOnly) ==
    {r \in T : r.type \in types
               /\ IF exactOnly THEN Exact(r, text) ELSE RecallsPart(r, text)}

Rank(row, text) == IF Recalls(row, text) THEN 0 ELSE 1
Fetched(rows, truncated) == [ok |-> TRUE, rows |-> rows, truncated |-> truncated]
LookupFailed == [ok |-> FALSE, rows |-> {}, truncated |-> FALSE]
Fetches(rows, text) ==
    IF Cardinality(rows) <= RowLimit THEN {Fetched(rows, FALSE)}
    ELSE {Fetched(R, TRUE) :
          R \in {S \in SUBSET rows :
                   /\ Cardinality(S) = RowLimit
                   /\ \A r \in S, q \in rows \ S : Rank(r, text) <= Rank(q, text)}}

(* _candidate_rows: what the collation recalled is compared again.         *)
Candidates(rows, text) ==
    {r \in rows : \E x \in TextsOf(r) : Same(x, text) \/ Inside(Fold(text), Fold(x))}
\* Mutant of Named: what the collation takes for equal is not compared again.
NamedByCollation(rows, text) == {r \in rows : Exact(r, text)}

Named(rows, text) == {r \in rows : \E x \in TextsOf(r) : Same(x, text)}

(* _exact_resolution_status, of candidates with their roles.               *)
Master(rows) == {[type |-> r.type, row |-> r] : r \in rows}
Registered(ks) == {[type |-> k.type, row |-> k] : k \in ks}
Status(cands, metric) ==
    IF Cardinality(cands) # 1 THEN "ambiguous"
    ELSE LET c == CHOOSE x \in cands : TRUE
             roles == RolesFor(c.type, metric)
         IN IF Cardinality(roles) > 1 THEN "ambiguous"
            ELSE IF metric # None /\ roles = {} THEN "failed"
            ELSE "resolved"

-----------------------------------------------------------------------------
(* datasage_entity_resolve.  Its arguments: a set of types or None, a      *)
(* domain or not, a metric of the domain or None.                          *)
Scopes == {s \in [types : TypeLists, domain : BOOLEAN, metric : Metrics \cup {None}] :
             s.metric # None => s.domain}

ScopeRoles(type, s) == IF s.domain THEN RolesFor(type, s.metric) ELSE {}
Supported(s) ==
    s.metric # None /\ s.types # None => \A t \in s.types : ScopeRoles(t, s) # {}
Considered(s) ==
    IF s.types # None THEN s.types
    ELSE {t \in Types : s.domain => ScopeRoles(t, s) # {}}
DefaultTypes(s) == {t \in Sources : s.domain => RolesOf[t] # {}}
Within(s) == IF s.types = None THEN Types ELSE s.types

Answer(status, cands, truncated) ==
    [status |-> status, cands |-> cands, truncated |-> truncated]
Failed == Answer("failed", {}, FALSE)

(* with_resolution_scope: a type that was considered and not searched.     *)
InScope(a, unsearched) ==
    IF unsearched # {} /\ a.status = "resolved" THEN [a EXCEPT !.status = "ambiguous"]
    ELSE a
Judge(cands, metric, truncated) ==
    LET status == Status(cands, metric)
    IN IF status = "failed" THEN Failed ELSE Answer(status, cands, truncated)

(* Without a domain no role is projected, so none can be ambiguous.        *)
StatusIn(cands, s, truncated) ==
    IF s.domain THEN Judge(cands, s.metric, truncated)
    ELSE Answer(IF Cardinality(cands) = 1 THEN "resolved" ELSE "ambiguous", cands, truncated)

Searched(text, s, types, known, f) ==
    LET rows == Candidates(f.rows, text)
        exact == Registered(known) \cup Master(Named(rows, text))
        a == IF exact # {} THEN StatusIn(exact, s, f.truncated)
             ELSE IF rows # {} THEN Answer("ambiguous", Master(rows), f.truncated)
             ELSE Answer("not_found", {}, f.truncated)
    IN InScope(a, Considered(s) \ (types \cup {k.type : k \in known}))

Answers(T, text, s) ==
    LET known == KnownAs(text, Within(s))
        types == (IF s.types = None THEN DefaultTypes(s) ELSE s.types) \cap Sources
        aliasOnly == /\ known # {}
                     /\ types = {} \/ (s.types # None /\ Cardinality(s.types) = 1)
    IN IF ~Supported(s) THEN {Failed}
       ELSE IF aliasOnly
            THEN {InScope(StatusIn(Registered(known), s, FALSE),
                          Considered(s) \ {k.type : k \in known})}
       ELSE IF types = {} THEN {Answer("not_found", {}, FALSE)}
       ELSE {Searched(text, s, types, known, f) :
             f \in Fetches(Found(T, types, text, known # {} \/ Short(text)), text)}

-----------------------------------------------------------------------------
(* References: a digest of a role and an identity.  The process remembers  *)
(* some of them, to ask an index instead of hashing the table.             *)
OwnRoles(type, s) == IF s.domain THEN ScopeRoles(type, s) ELSE {type}
LogicalRoles(type, s) == IF OwnRoles(type, s) = {} THEN {type} ELSE OwnRoles(type, s)

(* remember_opaque_entity_ref.                                             *)
Remember(ref) ==
    LET order == Append(SelectSeq(refs, LAMBDA r : r # ref), ref)
    IN SubSeq(order, IF Len(order) > CacheSize THEN Len(order) - CacheSize + 1 ELSE 1,
              Len(order))

(* _opaque_reference_candidates.                                           *)
\* Mutant of Verified: the digest of a row is not computed again.
VerifiedByIndex(rows, ref, s) == {r \in rows : ref.role \in LogicalRoles(r.type, s)}

Verified(rows, ref, s) ==
    {r \in rows : ref.role \in LogicalRoles(r.type, s) /\ ref.value \in {r.id, r.code}}

Indexed(T, types, ref) ==
    {r \in T : r.type \in types /\ \E x \in {r.id, r.code} \ {None} : Alike(x, ref.value)}
Hashed(T, types, ref, s) == Verified({r \in T : r.type \in types}, ref, s)

(* The role of the reference replaces the roles of the type.               *)
RefAnswer(rows, ref, s, types, truncated) ==
    InScope(IF rows = {} THEN Answer("not_found", {}, truncated)
            ELSE Answer(IF Cardinality(rows) = 1 THEN "resolved" ELSE "ambiguous",
                        Master(rows), truncated),
            Considered(s) \ types)

RefScoped(s) == /\ Supported(s) /\ (s.types # None \/ s.domain)
                /\ Considered(s) \cap Sources # {}

RefAnswers(T, remembered, ref, s) ==
    LET types == Considered(s) \cap Sources
        own == {t \in types : ref.role \in OwnRoles(t, s)}
        warm == IF remembered /\ own # {}
                THEN {Verified(f.rows, ref, s) :
                      f \in {g \in Fetches(Indexed(T, own, ref), ref.value) : ~g.truncated}}
                ELSE {{}}
        cold == {RefAnswer(f.rows, ref, s, types, f.truncated) :
                 f \in Fetches(Hashed(T, types, ref, s), ref.value)}
        found == {RefAnswer(rows, ref, s, types, FALSE) : rows \in warm \ {{}}}
    IN IF ~RefScoped(s) THEN {Failed}
       ELSE IF found # {} THEN found ELSE cold

-----------------------------------------------------------------------------
Init ==
    /\ master \in {T \in SUBSET Universe :
                     /\ Cardinality(T) <= MaxRows
                     /\ \A r, q \in T : r.type = q.type /\ r.id = q.id => r = q}
    /\ refs = <<>> /\ issued = {}
    /\ reply = None /\ call = None
    /\ cache = <<>> /\ seen = <<>>
    /\ asks = 0 /\ changes = 0

Change ==
    /\ changes < MaxChanges /\ asks > 0
    /\ \E r \in master :
         \/ master' = master \ {r}
         \/ \E q \in Universe : /\ q.type = r.type /\ q.id = r.id
                                /\ master' = (master \ {r}) \cup {q}
    /\ changes' = changes + 1 /\ reply' = None
    /\ UNCHANGED <<refs, call, cache, issued, seen, asks>>

Restart ==
    /\ call = None /\ refs # <<>>
    /\ refs' = <<>> /\ reply' = None
    /\ UNCHANGED <<master, call, cache, issued, seen, asks, changes>>

Ready == call = None /\ asks < MaxAsks

Resolve ==
    /\ Ready /\ asks' = asks + 1
    /\ \E text \in Texts, s \in Scopes : \E a \in Answers(master, text, s) :
         reply' = [kind |-> "text", token |-> text, scope |-> s, answer |-> a, of |-> master]
    /\ UNCHANGED <<master, refs, call, cache, issued, seen, changes>>

ResolveRef ==
    /\ Ready /\ asks' = asks + 1
    /\ \E ref \in issued, s \in Scopes :
         /\ \E a \in RefAnswers(master, Contains(refs, ref), ref, s) :
              reply' = [kind |-> "ref", token |-> ref, scope |-> s, answer |-> a, of |-> master]
         /\ refs' = IF Contains(refs, ref) /\ RefScoped(s) THEN Remember(ref) ELSE refs
    /\ UNCHANGED <<master, call, cache, issued, seen, changes>>

-----------------------------------------------------------------------------
(* A mapping with another laid over it, or with one value more.            *)
Updated(f, g) ==
    [x \in DOMAIN f \cup DOMAIN g |-> IF x \in DOMAIN g THEN g[x] ELSE f[x]]
Stored(f, k, v) == [x \in DOMAIN f \cup {k} |-> IF x = k THEN v ELSE f[x]]

(* The preflight of a query.  A request has a metric and filters, a set of *)
(* texts for each role; a call has several requests and one cache.         *)
Key(type, text) == <<type, text>>

Begin(q) ==
    call' = [metric |-> q.metric, filters |-> q.filters, left |-> DOMAIN q.filters,
             role |-> None, todo |-> {}, got |-> <<>>, out |-> <<>>, ids |-> <<>>,
             stage |-> "prefetch"]

Ask ==
    /\ Ready /\ asks' = asks + 1
    /\ \E q \in Requests : Begin(q)
    /\ cache' = <<>> /\ seen' = <<>> /\ reply' = None
    /\ UNCHANGED <<master, refs, issued, changes>>

AskMore ==
    /\ call # None /\ call.stage \in {"bound", "refused"} /\ asks < MaxAsks
    /\ asks' = asks + 1
    /\ \E q \in Requests : Begin(q)
    /\ UNCHANGED <<master, refs, reply, cache, issued, seen, changes>>

Refuse == call' = [call EXCEPT !.stage = "refused"]

(* Answers from the database, or the failure of the statement.             *)
Lookup(type, text) == Fetches(Found(master, {type}, text, TRUE), text)

(* prefetch_metric_entities: two lookups or more, in one statement.        *)
Unknown(r) == {v \in call.filters[r] : Cardinality(KnownAs(v, {TypeOf[r]})) # 1}
Pending ==
    LET roles == {r \in (DOMAIN call.filters \cap Allowed[call.metric]) \ Literal :
                    TypeOf[r] # None}
    IN (UNION {{Key(TypeOf[r], v) : v \in Unknown(r)} : r \in roles}) \ DOMAIN cache

Read(keys) == [k \in keys |-> master]

Prefetch ==
    /\ call # None /\ call.stage = "prefetch"
    /\ IF Cardinality(Pending) <= 1
       THEN /\ call' = [call EXCEPT !.stage = "bind"]
            /\ UNCHANGED <<cache, seen>>
       ELSE IF Cardinality(DOMAIN cache \cup Pending) > MaxLookups
            THEN Refuse /\ UNCHANGED <<cache, seen>>
       ELSE \/ /\ \E answers \in [Pending -> UNION {Lookup(k[1], k[2]) : k \in Pending}] :
                    /\ \A k \in Pending : answers[k] \in Lookup(k[1], k[2])
                    /\ cache' = Updated(cache, answers)
               /\ seen' = Updated(seen, Read(Pending))
               /\ call' = [call EXCEPT !.stage = "bind"]
            \/ /\ cache' = Updated(cache, [k \in Pending |-> LookupFailed])
               /\ Refuse /\ UNCHANGED seen
    /\ UNCHANGED <<master, refs, reply, issued, asks, changes>>

(* canonicalize_metric_request, one role after the other.                  *)
Binding == call # None /\ call.stage = "bind"
AllKnown(type, texts) ==
    type # None /\ \A v \in texts : Cardinality(KnownAs(v, {type})) = 1
KnownValues(type, texts) ==
    UNION {UNION {k.values : k \in KnownAs(v, {type})} : v \in texts}

(* The role in the domain that a role of the registry stands for: itself,  *)
(* or the only one the type has for the metric.                            *)
Target(role, type) ==
    LET roles == RolesFor(type, call.metric)
    IN IF role \in Allowed[call.metric]
       THEN IF role \in roles THEN role ELSE None
       ELSE IF Cardinality(roles) = 1 THEN CHOOSE r \in roles : TRUE ELSE None

(* Two roles that become one must agree.                                   *)
Put(role, out, values, ids) ==
    IF out \in DOMAIN call.out /\ call.out[out] # values THEN Refuse
    ELSE call' = [call EXCEPT !.left = @ \ {role}, !.role = None, !.todo = {},
                              !.got = <<>>, !.out = Stored(@, out, values),
                              !.ids = IF ids = None THEN @ ELSE Stored(@, out, ids)]

TakeRole(role) ==
    LET type == TypeOf[role]
        texts == call.filters[role]
        roles == RolesFor(type, call.metric)
        target == Target(role, type)
    IN IF AllKnown(type, texts)
       THEN Put(role, IF role \notin Allowed[call.metric] /\ Cardinality(roles) = 1
                      THEN target ELSE role,
                KnownValues(type, texts), None)
       ELSE IF role \in Literal \/ type = None THEN Put(role, role, texts, None)
       ELSE IF target = None THEN Refuse
       ELSE call' = [call EXCEPT !.role = role, !.todo = texts]

BindRole ==
    /\ Binding /\ call.role = None
    /\ \E role \in call.left : TakeRole(role)
    /\ UNCHANGED <<master, refs, reply, cache, issued, seen, asks, changes>>

(* One text: looked up unless this call did already, then judged.          *)
Judged(type, text, entry) ==
    IF ~entry.ok THEN Refuse
    ELSE LET rows == Named(entry.rows, text)
         IN IF entry.truncated \/ Cardinality(rows) # 1
               \/ Status(Master(rows), call.metric) = "failed"
            THEN Refuse
            ELSE call' = [call EXCEPT !.todo = @ \ {text},
                                      !.got = Stored(@, text, CHOOSE r \in rows : TRUE)]

\* Mutant of Missing: the cache of the call is not asked.
MissingAlways(key) == TRUE

Missing(key) == key \notin DOMAIN cache

BindText ==
    /\ Binding /\ call.role # None
    /\ \E text \in call.todo :
         LET type == TypeOf[call.role]
             key == Key(type, text)
         IN IF ~Missing(key)
            THEN Judged(type, text, cache[key]) /\ UNCHANGED <<cache, seen>>
            ELSE IF Cardinality(DOMAIN cache) >= MaxLookups \/ type \notin Sources
            THEN Refuse /\ UNCHANGED <<cache, seen>>
            ELSE \E entry \in Lookup(type, text) \cup {LookupFailed} :
                   /\ cache' = Stored(cache, key, entry)
                   /\ seen' = Stored(seen, key, master)
                   /\ Judged(type, text, entry)
    /\ UNCHANGED <<master, refs, reply, issued, asks, changes>>

BindIdentity ==
    /\ Binding /\ call.role # None /\ call.todo = {}
    /\ LET texts == DOMAIN call.got
       IN Put(call.role, Target(call.role, TypeOf[call.role]),
              {call.got[v].id : v \in texts}, call.got)
    /\ UNCHANGED <<master, refs, reply, cache, issued, seen, asks, changes>>

(* _validate_metric_filter_value_contracts: what must be an identity is.   *)
Finish ==
    /\ Binding /\ call.role = None /\ call.left = {}
    /\ call' = [call EXCEPT !.stage =
                 IF \A r \in DOMAIN call.out \ Literal : r \in DOMAIN call.ids
                 THEN "bound" ELSE "refused"]
    /\ UNCHANGED <<master, refs, reply, cache, issued, seen, asks, changes>>

(* The answer carries references: of the filters and of the rows.          *)
Give(ref) ==
    /\ Cardinality(issued) < MaxIssued
    /\ refs' = Remember(ref) /\ issued' = issued \cup {ref}

Issue ==
    /\ call # None /\ call.stage = "bound" /\ asks < MaxAsks
    /\ \/ \E r \in DOMAIN call.ids : \E v \in DOMAIN call.ids[r] :
            Give([role |-> r, value |-> call.ids[r][v].id])
       \/ \E r \in Roles : \E row \in master :
            /\ TypeOf[r] = row.type
            /\ Give([role |-> r, value |-> row.id])
    /\ UNCHANGED <<master, reply, call, cache, seen, asks, changes>>

End ==
    /\ call # None /\ call.stage \in {"bound", "refused"}
    /\ call' = None /\ cache' = <<>> /\ seen' = <<>>
    /\ UNCHANGED <<master, refs, reply, issued, asks, changes>>

Next == \/ Change \/ Restart \/ Resolve \/ ResolveRef
        \/ Ask \/ AskMore \/ Prefetch \/ BindRole \/ BindText \/ BindIdentity
        \/ Finish \/ Issue \/ End

Spec == Init /\ [][Next]_vars

-----------------------------------------------------------------------------
(* A filter bound to identities: each text is that of the one entity of    *)
(* its type whose name or code it is, in the master data its lookup read,  *)
(* no filter of a type with master data is dropped or widened, and the     *)
(* role is one the metric allows.  (canonicalize_metric_request.)          *)
Calls(row, text) == text \in {row.id, row.code} \/ Same(row.name, text) \/ Same(row.code, text)

Meant(type, texts) ==
    UNION {{row.id : row \in Named(cache[Key(type, v)].rows, v)} : v \in texts}

BoundAsNamed ==
    call # None /\ call.stage = "bound" =>
      /\ \A r \in DOMAIN call.ids :
           /\ r \in Allowed[call.metric]
           /\ \A v \in DOMAIN call.ids[r] :
                LET row == call.ids[r][v]
                IN /\ \E x \in TextsOf(row) : Same(x, v)
                   /\ {q \in seen[Key(row.type, v)] : q.type = row.type /\ Calls(q, v)}
                        \subseteq {row}
      /\ \A r \in DOMAIN call.filters \ Literal :
           TypeOf[r] # None =>
             \E out \in DOMAIN call.ids : call.out[out] = Meant(TypeOf[r], call.filters[r])

(* A text is looked up once in a call, whatever its requests and whatever  *)
(* changes between them, and a lookup that failed is not tried again.      *)
OneMeaning ==
    [][call # None /\ call' # None =>
         \A k \in DOMAIN cache : k \in DOMAIN cache' /\ cache'[k] = cache[k]]_vars

(* What datasage_entity_resolve calls resolved, of all candidates it could *)
(* have, is the only registered name or entity of that name or code in the *)
(* types it considered, none of which went unsearched; a query never binds *)
(* the token to another.                                                   *)
ResolvedIsMeant ==
    reply # None /\ reply.kind = "text" /\ reply.answer.status = "resolved"
    /\ ~reply.answer.truncated =>
      LET s == reply.scope
          text == reply.token
          c == CHOOSE x \in reply.answer.cands : TRUE
          rows == {r \in reply.of : /\ r.type \in Considered(s)
                                    /\ Same(r.name, text) \/ Same(r.code, text)}
          query == Named(Found(reply.of, {c.type}, text, TRUE), text)
      IN /\ Cardinality(reply.answer.cands) = 1
         /\ Master(rows) \cup Registered(KnownAs(text, Considered(s))) \subseteq {c}
         /\ Cardinality(query) = 1 /\ rows # {} => query = {c.row}
         /\ \A t \in Considered(s) \ Sources : KnownAs(text, {t}) # {}
         /\ s.metric # None => RolesFor(c.type, s.metric) # {}

(* A reference means the same whether the process that issued it still     *)
(* remembers it or not, and never an entity without that identity or in a  *)
(* role it was not issued for.                                             *)
RememberedOrNot ==
    reply # None /\ reply.kind = "ref" =>
      /\ reply.answer \in RefAnswers(reply.of, FALSE, reply.token, reply.scope)
      /\ \A c \in reply.answer.cands :
           /\ reply.token.value \in {c.row.id, c.row.code}
           /\ reply.token.role \in LogicalRoles(c.type, reply.scope)

(* Both kinds of answer, to a text and to a reference, mean what was asked. *)
MeantAsAsked == ResolvedIsMeant /\ RememberedOrNot

TypeOK ==
    /\ master \subseteq Universe /\ Cardinality(master) <= MaxRows
    /\ Len(refs) <= CacheSize /\ \A r \in Range(refs) : r \in issued
    /\ \A r \in issued : r.role \in Roles /\ r.value \in Texts
    /\ Cardinality(DOMAIN cache) <= MaxLookups
=============================================================================
