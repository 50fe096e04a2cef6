--------------------------- MODULE Entities_proofs --------------------------
(* For any names, master data, registry, metrics and requests: a lookup    *)
(* that was not cut off recalls every row the normalization can name, so   *)
(* what is bound or resolved is the only one meant; a call reads a text    *)
(* once; and a reference means the same whether the process remembers it.  *)
EXTENDS Entities, FiniteSetTheorems, TLAPS

-----------------------------------------------------------------------------
(* Lookups and candidates.                                                 *)
LEMMA TheOne ==
  ASSUME NEW S, IsFiniteSet(S), Cardinality(S) = 1
  PROVE  S = {CHOOSE x \in S : TRUE}
<1>1. \E x : S = {x}
  BY FS_Singleton
<1> QED
  BY <1>1

LEMMA FiniteMaster ==
  ASSUME NEW T, T \subseteq Universe
  PROVE  IsFiniteSet(T) /\ IsFiniteSet(Master(T))
<1>1. IsFiniteSet(T)
  BY FS_Subset, InputsAssumption
<1>2. [r \in T |-> [type |-> r.type, row |-> r]] \in Surjection(T, Master(T))
  BY DEF Surjection, Master
<1> QED
  BY <1>1, <1>2, FS_Surjection

LEMMA FiniteRegistered ==
  ASSUME NEW K, K \subseteq Known
  PROVE  IsFiniteSet(Registered(K))
<1>1. IsFiniteSet(K)
  BY FS_Subset, EntitiesAssumption
<1>2. [k \in K |-> [type |-> k.type, row |-> k]] \in Surjection(K, Registered(K))
  BY DEF Surjection, Registered
<1> QED
  BY <1>1, <1>2, FS_Surjection

(* A lookup returns rows it may return; one not cut off, all of them.      *)
LEMMA FetchedRows ==
  ASSUME NEW rows, NEW text, NEW f \in Fetches(rows, text)
  PROVE  /\ f.ok /\ f.rows \subseteq rows
         /\ ~f.truncated => f.rows = rows
BY DEF Fetches, Fetched

(* What the normalization calls by a name, the collation recalls.          *)
LEMMA NamedIsRecalled ==
  ASSUME NEW r \in Universe, NEW text \in Texts, Same(r.name, text) \/ Same(r.code, text)
  PROVE  Exact(r, text) /\ RecallsPart(r, text) /\ \E x \in TextsOf(r) : Same(x, text)
<1>1. PICK x \in {r.name, r.code} : Same(x, text)
  OBVIOUS
<1>2. x # None /\ x \in Texts /\ Fold(x) = Fold(text)
  BY <1>1, InputsAssumption DEF Same
<1>3. Alike(x, text)
  BY <1>2, EntitiesAssumption
<1> QED
  BY <1>1, <1>2, <1>3 DEF Exact, Recalls, RecallsPart, TextsOf

LEMMA NamedIsFound ==
  ASSUME NEW T \in SUBSET Universe, NEW types, NEW text \in Texts, NEW exactOnly,
         NEW r \in T, r.type \in types, Same(r.name, text) \/ Same(r.code, text)
  PROVE  /\ r \in Found(T, types, text, exactOnly)
         /\ r \in Candidates(Found(T, types, text, exactOnly), text)
         /\ r \in Named(Candidates(Found(T, types, text, exactOnly), text), text)
         /\ r \in Named(Found(T, types, text, exactOnly), text)
<1>1. Exact(r, text) /\ RecallsPart(r, text) /\ \E x \in TextsOf(r) : Same(x, text)
  BY NamedIsRecalled
<1> QED
  BY <1>1 DEF Found, Candidates, Named

-----------------------------------------------------------------------------
(* What datasage_entity_resolve calls resolved.                            *)
Resolves(T, text, s, a) ==
    LET c == CHOOSE x \in a.cands : TRUE
        rows == {r \in T : /\ r.type \in Considered(s)
                           /\ Same(r.name, text) \/ Same(r.code, text)}
        query == Named(Found(T, {c.type}, text, TRUE), text)
    IN /\ Cardinality(a.cands) = 1
       /\ Master(rows) \cup Registered(KnownAs(text, Considered(s))) \subseteq {c}
       /\ Cardinality(query) = 1 /\ rows # {} => query = {c.row}
       /\ \A t \in Considered(s) \ Sources : KnownAs(text, {t}) # {}
       /\ s.metric # None => RolesFor(c.type, s.metric) # {}

(* Only one candidate is ever resolved, in scope, and with a role.         *)
LEMMA OnlyOneResolves ==
  ASSUME NEW cands, IsFiniteSet(cands), NEW s \in Scopes, NEW truncated, NEW unsearched,
         NEW a, a = InScope(StatusIn(cands, s, truncated), unsearched),
         a.status = "resolved"
  PROVE  /\ Cardinality(cands) = 1 /\ a.cands = cands /\ unsearched = {}
         /\ a.truncated = truncated
         /\ s.metric # None => \A c \in cands : RolesFor(c.type, s.metric) # {}
<1> DEFINE b == StatusIn(cands, s, truncated)
<1>1. b.status = "resolved" /\ unsearched = {} /\ a = b
  <2>1. CASE unsearched # {} /\ b.status = "resolved"
    <3>1. a = [b EXCEPT !.status = "ambiguous"]
      BY <2>1 DEF InScope
    <3>2. b = [status |-> b.status, cands |-> b.cands, truncated |-> b.truncated]
      BY DEF StatusIn, Judge, Failed, Answer
    <3>3. a.status = "ambiguous"
      BY <3>1, <3>2
    <3> QED
      BY <3>3
  <2>2. CASE ~(unsearched # {} /\ b.status = "resolved")
    BY <2>2 DEF InScope
  <2> QED
    BY <2>1, <2>2
<1>2. CASE ~s.domain
  <2>1. s.metric = None
    BY <1>2 DEF Scopes
  <2>2. b = Answer(IF Cardinality(cands) = 1 THEN "resolved" ELSE "ambiguous", cands, truncated)
    BY <1>2 DEF StatusIn
  <2> QED
    BY <1>1, <2>1, <2>2 DEF Answer
<1>3. CASE s.domain
  <2>1. b = Judge(cands, s.metric, truncated)
    BY <1>3 DEF StatusIn
  <2>2. Status(cands, s.metric) = "resolved" /\ b = Answer("resolved", cands, truncated)
    BY <1>1, <2>1 DEF Judge, Failed, Answer
  <2>3. /\ Cardinality(cands) = 1
        /\ s.metric # None => RolesFor((CHOOSE x \in cands : TRUE).type, s.metric) # {}
    BY <2>2 DEF Status
  <2>4. cands = {CHOOSE x \in cands : TRUE}
    BY <2>3, TheOne
  <2> QED
    BY <1>1, <2>2, <2>3, <2>4 DEF Answer
<1> QED
  BY <1>2, <1>3 DEF Scopes

(* The rows a text names are among the candidates, in whatever is searched *)
(* of what is considered.                                                  *)
LEMMA ConsideredIsWithin ==
  ASSUME NEW s \in Scopes
  PROVE  /\ Considered(s) \subseteq Within(s)
         /\ \A t \in Considered(s) \cap Sources :
              t \in (IF s.types = None THEN DefaultTypes(s) ELSE s.types) \cap Sources
<1>1. \A t \in Types : s.domain /\ ScopeRoles(t, s) # {} => RolesOf[t] # {}
  BY DEF ScopeRoles, RolesFor
<1> QED
  BY <1>1, EntitiesAssumption DEF Considered, Within, DefaultTypes

LEMMA AliasResolves ==
  ASSUME NEW T \in SUBSET Universe, NEW text \in Texts, NEW s \in Scopes,
         NEW known, known = KnownAs(text, Within(s)),
         NEW cands, cands = Registered(known),
         NEW unsearched, unsearched = Considered(s) \ {k.type : k \in known},
         NEW truncated, NEW a, a = InScope(StatusIn(cands, s, truncated), unsearched),
         a.status = "resolved"
  PROVE  Resolves(T, text, s, a)
<1> DEFINE c == CHOOSE x \in a.cands : TRUE
           rows == {r \in T : /\ r.type \in Considered(s)
                              /\ Same(r.name, text) \/ Same(r.code, text)}
<1>1. IsFiniteSet(cands)
  BY FiniteRegistered DEF KnownAs
<1>2. /\ Cardinality(cands) = 1 /\ a.cands = cands /\ unsearched = {}
      /\ a.truncated = truncated
      /\ s.metric # None => \A e \in cands : RolesFor(e.type, s.metric) # {}
  BY <1>1, OnlyOneResolves
<1>3. a.cands = {c}
  BY <1>1, <1>2, TheOne
<1>4. \A t \in Considered(s) : t \notin Sources /\ KnownAs(text, {t}) # {}
  BY <1>2, EntitiesAssumption DEF KnownAs
<1>5. rows = {} /\ Master(rows) = {}
  BY <1>4, InputsAssumption DEF Master
<1>6. Registered(KnownAs(text, Considered(s))) \subseteq {c}
  BY <1>2, <1>3, ConsideredIsWithin DEF Registered, KnownAs
<1> QED
  BY <1>2, <1>3, <1>4, <1>5, <1>6 DEF Resolves

LEMMA SearchResolves ==
  ASSUME NEW T \in SUBSET Universe, NEW text \in Texts, NEW s \in Scopes,
         NEW known, known = KnownAs(text, Within(s)),
         NEW types, types = (IF s.types = None THEN DefaultTypes(s) ELSE s.types) \cap Sources,
         NEW exactOnly, NEW f \in Fetches(Found(T, types, text, exactOnly), text),
         NEW a, a = Searched(text, s, types, known, f),
         a.status = "resolved", ~a.truncated
  PROVE  Resolves(T, text, s, a)
<1> DEFINE c == CHOOSE x \in a.cands : TRUE
           rows == {r \in T : /\ r.type \in Considered(s)
                              /\ Same(r.name, text) \/ Same(r.code, text)}
           found == Candidates(f.rows, text)
           exact == Registered(known) \cup Master(Named(found, text))
           query == Named(Found(T, {c.type}, text, TRUE), text)
           unsearched == Considered(s) \ (types \cup {k.type : k \in known})
<1>1. f.rows \subseteq T /\ (~f.truncated => f.rows = Found(T, types, text, exactOnly))
  BY FetchedRows DEF Found
<1>2. IsFiniteSet(exact)
  <2>1. Named(found, text) \subseteq Universe
    BY <1>1 DEF Named, Candidates
  <2> QED
    BY <2>1, FiniteMaster, FiniteRegistered, FS_Union DEF KnownAs
<1>3. exact # {} /\ a = InScope(StatusIn(exact, s, f.truncated), unsearched)
  <2>1. CASE exact # {}
    BY <2>1 DEF Searched
  <2>2. CASE exact = {}
    <3>1. a = InScope(IF found # {} THEN Answer("ambiguous", Master(found), f.truncated)
                      ELSE Answer("not_found", {}, f.truncated), unsearched)
      BY <2>2 DEF Searched
    <3>2. PICK b \in {Answer("ambiguous", Master(found), f.truncated),
                      Answer("not_found", {}, f.truncated)} : a = InScope(b, unsearched)
      BY <3>1
    <3>3. b.status # "resolved"
      BY DEF Answer
    <3>4. a = b
      BY <3>2, <3>3 DEF InScope
    <3> QED
      BY <3>3, <3>4
  <2> QED
    BY <2>1, <2>2
<1>4. /\ Cardinality(exact) = 1 /\ a.cands = exact /\ unsearched = {}
      /\ a.truncated = f.truncated
      /\ s.metric # None => \A e \in exact : RolesFor(e.type, s.metric) # {}
  <2> HIDE DEF exact, unsearched
  <2> QED
    BY <1>2, <1>3, OnlyOneResolves
<1>5. a.cands = {c}
  <2> HIDE DEF exact
  <2> QED
    BY <1>2, <1>4, TheOne
<1>6. f.rows = Found(T, types, text, exactOnly)
  BY <1>1, <1>4
<1>7. \A r \in rows : r.type \in types
  <2>1. \A k \in known : k.type \notin Sources
    BY EntitiesAssumption DEF KnownAs
  <2>2. \A r \in rows : r.type \in Sources /\ r.type \in Considered(s)
    BY InputsAssumption
  <2> QED
    BY <1>4, <2>1, <2>2
<1>8. \A r \in rows : r \in Named(found, text)
  BY <1>6, <1>7, NamedIsFound
<1>9. Master(rows) \subseteq {c} /\ \A r \in rows : c = [type |-> r.type, row |-> r]
  <2>1. \A r \in rows : [type |-> r.type, row |-> r] \in exact
    BY <1>8 DEF Master
  <2> HIDE DEF exact, c
  <2> QED
    BY <1>4, <1>5, <2>1 DEF Master
<1>10. Registered(KnownAs(text, Considered(s))) \subseteq {c}
  BY ZenonT(60), <1>4, <1>5, ConsideredIsWithin DEF Registered, KnownAs
<1>11. Cardinality(query) = 1 /\ rows # {} => query = {c.row}
  <2>1. SUFFICES ASSUME Cardinality(query) = 1, NEW r \in rows PROVE query = {c.row}
    OBVIOUS
  <2>2. c = [type |-> r.type, row |-> r]
    BY <1>9
  <2> HIDE DEF c
  <2>3. c.type = r.type /\ c.row = r
    BY <2>2
  <2>4. r \in query
    BY <2>3, NamedIsFound
  <2>5. query \subseteq Universe
    BY DEF Named, Found
  <2>6. IsFiniteSet(query)
    BY <2>5, FiniteMaster
  <2> HIDE DEF query
  <2>7. query = {CHOOSE x \in query : TRUE}
    BY <2>1, <2>6, TheOne
  <2> QED
    BY <2>3, <2>4, <2>7
<1>12. \A t \in Considered(s) \ Sources : KnownAs(text, {t}) # {}
  BY <1>4 DEF KnownAs
<1> HIDE DEF exact, found, unsearched
<1> QED
  BY <1>4, <1>5, <1>9, <1>10, <1>11, <1>12 DEF Resolves

LEMMA ResolvedMeans ==
  ASSUME NEW T \in SUBSET Universe, NEW text \in Texts, NEW s \in Scopes,
         NEW a \in Answers(T, text, s), a.status = "resolved", ~a.truncated
  PROVE  Resolves(T, text, s, a)
<1> DEFINE known == KnownAs(text, Within(s))
           types == (IF s.types = None THEN DefaultTypes(s) ELSE s.types) \cap Sources
           exactOnly == known # {} \/ Short(text)
<1>1. a # Failed /\ a # Answer("not_found", {}, FALSE)
  BY DEF Failed, Answer
<1>2. \/ a = InScope(StatusIn(Registered(known), s, FALSE), Considered(s) \ {k.type : k \in known})
      \/ \E f \in Fetches(Found(T, types, text, exactOnly), text) :
            a = Searched(text, s, types, known, f)
  BY <1>1 DEF Answers
<1>3. CASE a = InScope(StatusIn(Registered(known), s, FALSE), Considered(s) \ {k.type : k \in known})
  <2>1. PICK cands, unsearched, truncated :
          /\ cands = Registered(known) /\ unsearched = Considered(s) \ {k.type : k \in known}
          /\ a = InScope(StatusIn(cands, s, truncated), unsearched)
    BY <1>3
  <2> QED
    BY <2>1, AliasResolves
<1>4. ASSUME NEW f \in Fetches(Found(T, types, text, exactOnly), text),
             a = Searched(text, s, types, known, f)
      PROVE  Resolves(T, text, s, a)
  <2> HIDE DEF types, exactOnly, known
  <2> QED
    BY <1>4, SearchResolves DEF types, known
<1> QED
  BY <1>2, <1>3, <1>4

-----------------------------------------------------------------------------
(* References: the index finds every row the digest of the table finds.    *)
LEMMA IndexedIsHashed ==
  ASSUME NEW T \in SUBSET Universe, NEW ref, ref.value \in Texts, NEW s \in Scopes,
         NEW types, types = Considered(s) \cap Sources,
         NEW own, own = {t \in types : ref.role \in OwnRoles(t, s)}, own # {}
  PROVE  /\ Verified(Indexed(T, own, ref), ref, s) = Hashed(T, types, ref, s)
         /\ Hashed(T, types, ref, s) \subseteq Indexed(T, own, ref)
<1>1. \A t \in types : ref.role \in LogicalRoles(t, s) => t \in own
  <2>1. SUFFICES ASSUME NEW t \in types, ref.role \in LogicalRoles(t, s), OwnRoles(t, s) = {}
                 PROVE  FALSE
    BY DEF LogicalRoles
  <2>2. ref.role = t
    BY <2>1 DEF LogicalRoles
  <2>3. PICK u \in types : t \in OwnRoles(u, s)
    BY <2>2
  <2>4. s.domain /\ t \in RolesOf[u]
    BY <2>1, <2>3 DEF OwnRoles, ScopeRoles, RolesFor
  <2>5. t \in Types /\ u \in Types
    BY EntitiesAssumption
  <2>6. t = u
    BY <2>4, <2>5, EntitiesAssumption
  <2> QED
    BY <2>1, <2>3, <2>6
<1>2. ref.value # None /\ Alike(ref.value, ref.value)
  BY EntitiesAssumption
<1>3. Hashed(T, types, ref, s) \subseteq Indexed(T, own, ref)
  BY <1>1, <1>2 DEF Hashed, Verified, Indexed
<1>4. \A r \in Indexed(T, own, ref) : r \in T /\ r.type \in types
  BY DEF Indexed
<1> QED
  BY <1>3, <1>4 DEF Hashed, Verified

LEMMA WarmIsCold ==
  ASSUME NEW T \in SUBSET Universe, NEW remembered, NEW ref, ref.value \in Texts,
         NEW s \in Scopes, NEW a \in RefAnswers(T, remembered, ref, s)
  PROVE  a \in RefAnswers(T, FALSE, ref, s)
<1> DEFINE types == Considered(s) \cap Sources
           own == {t \in types : ref.role \in OwnRoles(t, s)}
           hashed == Hashed(T, types, ref, s)
           cold == {RefAnswer(f.rows, ref, s, types, f.truncated) :
                    f \in Fetches(hashed, ref.value)}
           warm == IF remembered /\ own # {}
                   THEN {Verified(f.rows, ref, s) :
                         f \in {g \in Fetches(Indexed(T, own, ref), ref.value) : ~g.truncated}}
                   ELSE {{}}
           found == {RefAnswer(rows, ref, s, types, FALSE) : rows \in warm \ {{}}}
<1>1. RefAnswers(T, FALSE, ref, s) = IF ~RefScoped(s) THEN {Failed} ELSE cold
  BY DEF RefAnswers
<1>2. RefAnswers(T, remembered, ref, s) =
        IF ~RefScoped(s) THEN {Failed} ELSE IF found # {} THEN found ELSE cold
  BY DEF RefAnswers
<1>3. found \subseteq cold
  <2>1. SUFFICES ASSUME NEW rows \in warm, rows # {}
                 PROVE  RefAnswer(rows, ref, s, types, FALSE) \in cold
    OBVIOUS
  <2>2. own # {}
    BY <2>1
  <2>3. PICK f \in Fetches(Indexed(T, own, ref), ref.value) :
          ~f.truncated /\ rows = Verified(f.rows, ref, s)
    BY <2>1, <2>2
  <2>4. f.rows = Indexed(T, own, ref) /\ Cardinality(Indexed(T, own, ref)) <= RowLimit
    BY <2>3 DEF Fetches, Fetched
  <2>5. rows = hashed /\ hashed \subseteq Indexed(T, own, ref)
    <3>1. /\ types = Considered(s) \cap Sources
          /\ own = {t \in types : ref.role \in OwnRoles(t, s)}
      OBVIOUS
    <3> HIDE DEF types, own
    <3>2. /\ Verified(Indexed(T, own, ref), ref, s) = Hashed(T, types, ref, s)
          /\ Hashed(T, types, ref, s) \subseteq Indexed(T, own, ref)
      BY ZenonT(60), <2>2, <3>1, IndexedIsHashed
    <3> QED
      BY <2>3, <2>4, <3>2
  <2>6. IsFiniteSet(Indexed(T, own, ref))
    BY FS_Subset, InputsAssumption DEF Indexed
  <2>7. Cardinality(hashed) <= RowLimit
    <3>1. /\ IsFiniteSet(hashed)
          /\ Cardinality(hashed) <= Cardinality(Indexed(T, own, ref))
      BY <2>5, <2>6, FS_Subset
    <3>2. Cardinality(hashed) \in Nat /\ Cardinality(Indexed(T, own, ref)) \in Nat
      BY <2>6, <3>1, FS_CardinalityType
    <3> QED
      BY <2>4, <3>1, <3>2, EntitiesAssumption
  <2>8. Fetched(hashed, FALSE) \in Fetches(hashed, ref.value)
    BY <2>7 DEF Fetches
  <2>9. Fetched(hashed, FALSE).rows = hashed /\ Fetched(hashed, FALSE).truncated = FALSE
    BY DEF Fetched
  <2> QED
    BY <2>5, <2>8, <2>9
<1> HIDE DEF found, cold
<1> QED
  BY <1>1, <1>2, <1>3

LEMMA ReferenceMeans ==
  ASSUME NEW T \in SUBSET Universe, NEW ref, NEW s \in Scopes,
         NEW a \in RefAnswers(T, FALSE, ref, s), NEW c \in a.cands
  PROVE  ref.value \in {c.row.id, c.row.code} /\ ref.role \in LogicalRoles(c.type, s)
<1> DEFINE types == Considered(s) \cap Sources
           hashed == Hashed(T, types, ref, s)
<1>1. PICK f \in Fetches(hashed, ref.value) : a = RefAnswer(f.rows, ref, s, types, f.truncated)
  <2>1. a # Failed
    BY DEF Failed, Answer
  <2> QED
    BY <2>1 DEF RefAnswers
<1>2. f.rows \subseteq hashed
  BY FetchedRows
<1>3. a.cands \subseteq Master(f.rows)
  <2>1. PICK b \in {Answer("not_found", {}, f.truncated),
                    Answer(IF Cardinality(f.rows) = 1 THEN "resolved" ELSE "ambiguous",
                           Master(f.rows), f.truncated)} :
          a = InScope(b, Considered(s) \ types)
    BY <1>1 DEF RefAnswer
  <2>2. b.cands \subseteq Master(f.rows)
    BY DEF Answer
  <2>3. a.cands = b.cands
    BY <2>1 DEF InScope, Answer
  <2> QED
    BY <2>2, <2>3
<1>4. PICK r \in f.rows : c = [type |-> r.type, row |-> r]
  BY <1>3 DEF Master
<1>5. r \in hashed
  BY <1>2
<1> QED
  BY <1>4, <1>5 DEF Hashed, Verified

-----------------------------------------------------------------------------
(* The inductive invariant: whatever the cache of the call holds is what a *)
(* lookup read, every text bound so far has one entity there, and no later *)
(* lookup takes it away.                                                   *)
Partial(A, B) == UNION {[D -> B] : D \in SUBSET A}
Values == Texts \cup UNION {k.values : k \in Known}
Stages == {"prefetch", "bind", "bound", "refused"}
Calling == [metric : Metrics, filters : Partial(Roles, SUBSET Texts), left : SUBSET Roles,
            role : Roles \cup {None}, todo : SUBSET Texts, got : Partial(Texts, Universe),
            out : Partial(Roles, SUBSET Values),
            ids : Partial(Roles, Partial(Texts, Universe)), stage : Stages]

Grounded(k) ==
    cache[k].ok => /\ k \in DOMAIN seen /\ seen[k] \subseteq Universe
                   /\ cache[k] \in Fetches(Found(seen[k], {k[1]}, k[2], TRUE), k[2])

BoundTo(type, text, row) ==
    /\ Key(type, text) \in DOMAIN cache
    /\ cache[Key(type, text)].ok /\ ~cache[Key(type, text)].truncated
    /\ Named(cache[Key(type, text)].rows, text) = {row}

(* A role whose texts are identities.                                      *)
Wanted(r) == r \notin Literal /\ TypeOf[r] # None

Done(r) ==
    /\ \A v \in call.filters[r] : Key(TypeOf[r], v) \in DOMAIN cache
    /\ \E out \in DOMAIN call.ids : call.out[out] = Meant(TypeOf[r], call.filters[r])

InHand ==
    IF call.role = None THEN call.todo = {} /\ DOMAIN call.got = {}
    ELSE /\ call.role \in call.left /\ Wanted(call.role)
         /\ Target(call.role, TypeOf[call.role]) \in Allowed[call.metric]
         /\ call.todo \cup DOMAIN call.got = call.filters[call.role]
         /\ \A v \in DOMAIN call.got : BoundTo(TypeOf[call.role], v, call.got[v])

Settled ==
    /\ DOMAIN call.ids \subseteq DOMAIN call.out
    /\ \A out \in DOMAIN call.ids :
         /\ out \in Allowed[call.metric]
         /\ \A v \in DOMAIN call.ids[out] :
              \E type \in Types : BoundTo(type, v, call.ids[out][v])

CallSound ==
    /\ call \in Calling
    /\ call.left \subseteq DOMAIN call.filters
    /\ \A r \in DOMAIN call.filters : call.filters[r] # {}
    /\ call.stage = "bound" => call.left = {}
    /\ InHand /\ Settled
    /\ \A r \in DOMAIN call.filters \ call.left : Wanted(r) => Done(r)

ReplySound ==
    /\ reply.of \subseteq Universe /\ reply.scope \in Scopes
    /\ reply.kind = "text" => /\ reply.token \in Texts
                              /\ reply.answer \in Answers(reply.of, reply.token, reply.scope)
    /\ reply.kind = "ref" =>
         reply.answer \in RefAnswers(reply.of, FALSE, reply.token, reply.scope)

IInv ==
    /\ master \subseteq Universe
    /\ \A k \in DOMAIN cache : Grounded(k)
    /\ \A ref \in issued : ref.value \in Texts
    /\ call # None => CallSound
    /\ reply # None => ReplySound

-----------------------------------------------------------------------------
(* Partial functions, and a cache that grows.                              *)
LEMMA StoredIsPartial ==
  ASSUME NEW A, NEW B, NEW f \in Partial(A, B), NEW a \in A, NEW b \in B
  PROVE  Stored(f, a, b) \in Partial(A, B)
<1>1. f \in [DOMAIN f -> B] /\ DOMAIN f \subseteq A
  BY DEF Partial
<1>2. Stored(f, a, b) \in [DOMAIN f \cup {a} -> B] /\ DOMAIN f \cup {a} \in SUBSET A
  BY <1>1 DEF Stored
<1> QED
  BY <1>2 DEF Partial

LEMMA EmptyIsPartial ==
  ASSUME NEW A, NEW B
  PROVE  <<>> \in Partial(A, B) /\ DOMAIN <<>> = {}
<1>1. DOMAIN <<>> = {} /\ <<>> \in [{} -> B]
  OBVIOUS
<1> QED
  BY <1>1 DEF Partial

Grows == \A k \in DOMAIN cache : k \in DOMAIN cache' /\ cache'[k] = cache[k]

LEMMA BindingStays ==
  ASSUME Grows, NEW type, NEW text, NEW row, BoundTo(type, text, row)
  PROVE  BoundTo(type, text, row)'
BY DEF Grows, BoundTo

LEMMA SettledStays ==
  ASSUME Grows, Settled, call'.metric = call.metric, call'.out = call.out, call'.ids = call.ids
  PROVE  Settled'
BY BindingStays DEF Settled

LEMMA DoneStays ==
  ASSUME Grows, NEW r, Done(r), call'.filters = call.filters,
         \A o \in DOMAIN call.ids : o \in DOMAIN call'.ids /\ call'.out[o] = call.out[o]
  PROVE  Done(r)'
<1>1. \A v \in call.filters[r] : /\ Key(TypeOf[r], v) \in DOMAIN cache'
                                 /\ cache'[Key(TypeOf[r], v)] = cache[Key(TypeOf[r], v)]
  BY DEF Done, Grows
<1>2. Meant(TypeOf[r], call.filters[r])' = Meant(TypeOf[r], call.filters[r])
  BY <1>1 DEF Meant
<1> QED
  BY <1>1, <1>2 DEF Done

LEMMA HandStays ==
  ASSUME Grows, InHand, call'.metric = call.metric, call'.filters = call.filters,
         call'.left = call.left, call'.role = call.role, call'.todo = call.todo,
         call'.got = call.got
  PROVE  InHand'
<1>1. Target(call.role, TypeOf[call.role])' = Target(call.role, TypeOf[call.role])
  BY DEF Target
<1> QED
  BY <1>1, BindingStays DEF InHand, Wanted

LEMMA StageMoves ==
  ASSUME CallSound, Grows, NEW st \in Stages, st = "bound" => call.left = {},
         call' = [call EXCEPT !.stage = st]
  PROVE  CallSound'
<1>1. /\ call' \in Calling /\ call'.metric = call.metric /\ call'.filters = call.filters
      /\ call'.left = call.left /\ call'.role = call.role /\ call'.todo = call.todo
      /\ call'.got = call.got /\ call'.out = call.out /\ call'.ids = call.ids
      /\ call'.stage = st
  BY DEF CallSound, Calling
<1>2. InHand' /\ Settled'
  BY <1>1, HandStays, SettledStays DEF CallSound
<1>3. \A r \in DOMAIN call.filters \ call.left : Wanted(r) => Done(r)'
  BY <1>1, DoneStays DEF CallSound
<1> QED
  BY <1>1, <1>2, <1>3 DEF CallSound, Wanted

(* A role gets its values, and identities perhaps.                         *)
LEMMA PutStep ==
  ASSUME CallSound, cache' = cache, NEW role \in call.left, NEW out \in Roles,
         NEW values \in SUBSET Values, NEW ids, Put(role, out, values, ids),
         call.stage = "bind",
         ids # None => /\ ids \in Partial(Texts, Universe) /\ out \in Allowed[call.metric]
                       /\ \A v \in DOMAIN ids : \E type \in Types : BoundTo(type, v, ids[v]),
         Wanted(role) => /\ ids # None /\ values = Meant(TypeOf[role], call.filters[role])
                         /\ \A v \in call.filters[role] : Key(TypeOf[role], v) \in DOMAIN cache
  PROVE  CallSound'
<1>0. Grows
  BY DEF Grows
<1>1. CASE Refuse
  BY <1>0, <1>1, StageMoves DEF Refuse, Stages
<1>2. CASE ~(out \in DOMAIN call.out /\ call.out[out] # values)
  <2> DEFINE newOut == Stored(call.out, out, values)
             newIds == IF ids = None THEN call.ids ELSE Stored(call.ids, out, ids)
  <2>1. call' = [call EXCEPT !.left = @ \ {role}, !.role = None, !.todo = {},
                             !.got = <<>>, !.out = newOut, !.ids = newIds]
    BY <1>2 DEF Put
  <2>2. call \in Calling
    BY DEF CallSound
  <2>3. /\ newOut \in Partial(Roles, SUBSET Values) /\ DOMAIN newOut = DOMAIN call.out \cup {out}
        /\ newOut[out] = values /\ \A o \in DOMAIN call.out : newOut[o] = call.out[o]
    <3>1. call.out \in Partial(Roles, SUBSET Values)
      BY <2>2 DEF Calling
    <3>2. newOut \in Partial(Roles, SUBSET Values)
      BY <3>1, StoredIsPartial
    <3> QED
      BY <1>2, <3>2 DEF Stored
  <2>4. /\ newIds \in Partial(Roles, Partial(Texts, Universe))
        /\ DOMAIN newIds = DOMAIN call.ids \cup (IF ids = None THEN {} ELSE {out})
        /\ ids # None => newIds[out] = ids
        /\ \A o \in DOMAIN call.ids : o # out \/ ids = None => newIds[o] = call.ids[o]
    <3>1. call.ids \in Partial(Roles, Partial(Texts, Universe))
      BY <2>2 DEF Calling
    <3>2. CASE ids = None
      BY <3>1, <3>2
    <3>3. CASE ids # None
      <4>1. newIds \in Partial(Roles, Partial(Texts, Universe))
        BY <3>1, <3>3, StoredIsPartial
      <4> QED
        BY <3>3, <4>1 DEF Stored
    <3> QED
      BY <3>2, <3>3
  <2> HIDE DEF newOut, newIds
  <2>5. /\ call' \in Calling /\ call'.metric = call.metric /\ call'.filters = call.filters
        /\ call'.left = call.left \ {role} /\ call'.role = None /\ call'.todo = {}
        /\ DOMAIN call'.got = {} /\ call'.out = newOut /\ call'.ids = newIds
        /\ call'.stage = "bind"
    BY <2>1, <2>2, <2>3, <2>4, EmptyIsPartial DEF Calling
  <2>6. InHand'
    BY <2>5 DEF InHand
  <2>7. Settled'
    <3>1. DOMAIN newIds \subseteq DOMAIN newOut
      BY <2>3, <2>4 DEF CallSound, Settled
    <3>2. ASSUME NEW o \in DOMAIN newIds
          PROVE  /\ o \in Allowed[call.metric]
                 /\ \A v \in DOMAIN newIds[o] : \E type \in Types : BoundTo(type, v, newIds[o][v])
      <4>1. CASE o = out /\ ids # None
        BY <2>4, <4>1
      <4>2. CASE ~(o = out /\ ids # None)
        <5>1. o \in DOMAIN call.ids /\ newIds[o] = call.ids[o]
          BY <2>4, <3>2, <4>2
        <5> QED
          BY <5>1 DEF CallSound, Settled
      <4> QED
        BY <4>1, <4>2
    <3> QED
      BY <1>0, <2>5, <3>1, <3>2, BindingStays DEF Settled
  <2>8. ASSUME NEW r \in DOMAIN call.filters \ call'.left, Wanted(r)
        PROVE  Done(r)'
    <3>1. \A o \in DOMAIN call.ids : o \in DOMAIN call'.ids /\ call'.out[o] = call.out[o]
      BY <2>3, <2>4, <2>5 DEF CallSound, Settled
    <3>2. CASE r # role
      BY <1>0, <2>5, <2>8, <3>1, <3>2, DoneStays DEF CallSound
    <3>3. CASE r = role
      <4>1. Meant(TypeOf[r], call.filters[r])' = Meant(TypeOf[r], call.filters[r])
        BY <2>5 DEF Meant
      <4>2. out \in DOMAIN call'.ids /\ call'.out[out] = values
        BY <2>3, <2>4, <2>5, <2>8, <3>3
      <4> QED
        BY <2>5, <2>8, <3>3, <4>1, <4>2 DEF Done
    <3> QED
      BY <3>2, <3>3
  <2> QED
    BY <2>5, <2>6, <2>7, <2>8 DEF CallSound, Wanted
<1> QED
  BY <1>1, <1>2 DEF Put

(* The role that a role of the registry stands for is one of the metric.   *)
LEMMA TheRoleFor ==
  ASSUME NEW type \in Types, NEW metric \in Metrics, Cardinality(RolesFor(type, metric)) = 1
  PROVE  (CHOOSE r \in RolesFor(type, metric) : TRUE) \in Roles \cap Allowed[metric]
<1>1. RolesFor(type, metric) = RolesOf[type] \cap Allowed[metric]
  BY EntitiesAssumption DEF RolesFor
<1>2. RolesFor(type, metric) \subseteq Roles /\ IsFiniteSet(RolesFor(type, metric))
  BY <1>1, FS_Subset, EntitiesAssumption
<1>3. RolesFor(type, metric) = {CHOOSE r \in RolesFor(type, metric) : TRUE}
  BY <1>2, TheOne
<1> QED
  BY <1>1, <1>2, <1>3

LEMMA TargetAllowed ==
  ASSUME NEW role, NEW type \in Types, call.metric \in Metrics, Target(role, type) # None
  PROVE  Target(role, type) \in Roles \cap Allowed[call.metric]
BY TheRoleFor, EntitiesAssumption DEF Target

(* What must be an identity is not in the registry.                        *)
LEMMA WantedIsUnknown ==
  ASSUME NEW role \in Roles, Wanted(role), NEW texts, texts # {}
  PROVE  TypeOf[role] \in Types /\ ~AllKnown(TypeOf[role], texts)
<1>1. TypeOf[role] \in Sources /\ TypeOf[role] \in Types
  BY EntitiesAssumption DEF Wanted
<1>2. \A v \in texts : KnownAs(v, {TypeOf[role]}) = {}
  BY <1>1, EntitiesAssumption DEF KnownAs
<1> QED
  BY <1>1, <1>2, FS_EmptySet DEF AllKnown

LEMMA TakeRoleStep ==
  ASSUME CallSound, cache' = cache, call.stage = "bind", call.role = None,
         NEW role \in call.left, TakeRole(role)
  PROVE  CallSound'
<1> DEFINE type == TypeOf[role]
           texts == call.filters[role]
           roles == RolesFor(type, call.metric)
           target == Target(role, type)
           out == IF role \notin Allowed[call.metric] /\ Cardinality(roles) = 1
                  THEN target ELSE role
<1>0. Grows
  BY DEF Grows
<1>1. /\ role \in Roles /\ role \in DOMAIN call.filters /\ texts \in SUBSET Texts /\ texts # {}
      /\ call.metric \in Metrics /\ call \in Calling /\ type \in Types \cup {None}
  <2>1. role \in Roles /\ role \in DOMAIN call.filters /\ call.metric \in Metrics /\ call \in Calling
    BY DEF CallSound, Calling
  <2>2. call.filters \in Partial(Roles, SUBSET Texts)
    BY <2>1 DEF Calling
  <2>3. call.filters[role] \in SUBSET Texts
    BY <2>1, <2>2 DEF Partial
  <2> QED
    BY <2>1, <2>3, EntitiesAssumption DEF CallSound
<1>2. CASE AllKnown(type, texts)
  <2>1. Put(role, out, KnownValues(type, texts), None)
    BY <1>2 DEF TakeRole
  <2>2. ~Wanted(role)
    BY <1>1, <1>2, WantedIsUnknown
  <2>3. KnownValues(type, texts) \in SUBSET Values
    BY DEF KnownValues, KnownAs, Values
  <2>4. out \in Roles
    <3>1. CASE role \notin Allowed[call.metric] /\ Cardinality(roles) = 1
      <4>1. type \in Types
        BY <1>1, <1>2 DEF AllKnown
      <4>2. out = CHOOSE r \in RolesFor(type, call.metric) : TRUE
        BY <3>1 DEF Target
      <4> QED
        BY <1>1, <3>1, <4>1, <4>2, TheRoleFor
    <3> QED
      BY <1>1, <3>1
  <2> HIDE DEF out, texts, type
  <2> QED
    BY <2>1, <2>2, <2>3, <2>4, PutStep
<1>3. CASE ~AllKnown(type, texts) /\ (role \in Literal \/ type = None)
  <2>1. Put(role, role, texts, None)
    BY <1>3 DEF TakeRole
  <2>2. ~Wanted(role) /\ texts \in SUBSET Values
    BY <1>1, <1>3 DEF Wanted, Values
  <2> HIDE DEF texts
  <2> QED
    BY <1>1, <2>1, <2>2, PutStep
<1>4. CASE ~AllKnown(type, texts) /\ ~(role \in Literal \/ type = None)
  <2>1. CASE target = None
    BY <1>0, <1>4, <2>1, StageMoves DEF TakeRole, Refuse, Stages
  <2>2. CASE target # None
    <3>1. call' = [call EXCEPT !.role = role, !.todo = texts]
      BY <1>4, <2>2 DEF TakeRole
    <3>2. /\ call' \in Calling /\ call'.metric = call.metric /\ call'.filters = call.filters
          /\ call'.left = call.left /\ call'.role = role /\ call'.todo = texts
          /\ call'.got = call.got /\ call'.out = call.out /\ call'.ids = call.ids
          /\ call'.stage = "bind"
      BY <1>1, <3>1 DEF Calling
    <3>3. target \in Allowed[call.metric]
      BY <1>1, <1>4, <2>2, TargetAllowed
    <3>4. Target(role, type)' = target
      BY <3>2 DEF Target
    <3>5. InHand'
      <4>1. DOMAIN call.got = {} /\ role # None
        BY <1>1, EntitiesAssumption DEF CallSound, InHand
      <4> QED
        BY <1>4, <3>2, <3>3, <3>4, <4>1 DEF InHand, Wanted
    <3>6. Settled' /\ \A r \in DOMAIN call.filters \ call.left : Wanted(r) => Done(r)'
      BY <1>0, <3>2, SettledStays, DoneStays DEF CallSound
    <3> QED
      BY <3>2, <3>5, <3>6 DEF CallSound, Wanted
  <2> QED
    BY <2>1, <2>2
<1> QED
  BY <1>2, <1>3, <1>4

(* A text is bound to the one row of its entry that it names.              *)
LEMMA JudgedStep ==
  ASSUME CallSound, Grows, call.stage = "bind", call.role # None, NEW text \in call.todo,
         NEW entry, entry.ok => entry.rows \subseteq Universe,
         Key(TypeOf[call.role], text) \in DOMAIN cache',
         cache'[Key(TypeOf[call.role], text)] = entry,
         Judged(TypeOf[call.role], text, entry)
  PROVE  CallSound'
<1> DEFINE type == TypeOf[call.role]
           rows == Named(entry.rows, text)
           row == CHOOSE r \in rows : TRUE
           refused == \/ ~entry.ok \/ entry.truncated \/ Cardinality(rows) # 1
                      \/ Status(Master(rows), call.metric) = "failed"
<1>1. CASE Refuse
  BY <1>1, StageMoves DEF Refuse, Stages
<1>2. CASE ~refused
  <2>1. call' = [call EXCEPT !.todo = @ \ {text}, !.got = Stored(@, text, row)]
    BY <1>2 DEF Judged
  <2>2. rows = {row} /\ row \in Universe
    <3>1. rows \subseteq Universe
      BY <1>2 DEF Named
    <3>2. IsFiniteSet(rows) /\ Cardinality(rows) = 1
      BY <1>2, <3>1, FiniteMaster
    <3> HIDE DEF rows
    <3>3. rows = {row}
      BY <3>2, TheOne
    <3> QED
      BY <3>1, <3>3
  <2> HIDE DEF row
  <2>3. PICK t, one : t = type /\ one = row
    OBVIOUS
  <2>4. text \in Texts /\ call \in Calling /\ call.got \in Partial(Texts, Universe)
    BY DEF CallSound, Calling
  <2>5. /\ Stored(call.got, text, row) \in Partial(Texts, Universe)
        /\ DOMAIN Stored(call.got, text, row) = DOMAIN call.got \cup {text}
        /\ \A v \in DOMAIN call.got \cup {text} :
             Stored(call.got, text, row)[v] = IF v = text THEN row ELSE call.got[v]
    BY <2>2, <2>4, StoredIsPartial DEF Stored
  <2>6. /\ call' \in Calling /\ call'.metric = call.metric /\ call'.filters = call.filters
        /\ call'.left = call.left /\ call'.role = call.role /\ call'.todo = call.todo \ {text}
        /\ call'.got = Stored(call.got, text, row) /\ call'.out = call.out
        /\ call'.ids = call.ids /\ call'.stage = "bind"
    BY <2>1, <2>4, <2>5 DEF Calling
  <2>7. Target(call.role, type)' = Target(call.role, type)
    BY <2>6 DEF Target
  <2>8. \A v \in DOMAIN call'.got : BoundTo(type, v, call.got[v])'
    <3>1. \A v \in DOMAIN call.got : BoundTo(t, v, call.got[v])
      BY <2>3 DEF CallSound, InHand
    <3>2. \A v, r : BoundTo(t, v, r) => BoundTo(t, v, r)'
      BY BindingStays
    <3>3. BoundTo(t, text, one)'
      <4>1. cache'[Key(t, text)] = entry /\ Key(t, text) \in DOMAIN cache'
        BY <2>3
      <4> QED
        BY <1>2, <2>2, <2>3, <4>1 DEF BoundTo
    <3>4. \A v \in DOMAIN call'.got : call'.got[v] = IF v = text THEN one ELSE call.got[v]
      BY <2>3, <2>5, <2>6
    <3>5. ASSUME NEW v \in DOMAIN call'.got
          PROVE  BoundTo(t, v, call.got[v])'
      <4>1. CASE v = text
        <5>1. call'.got[v] = one
          BY <3>4, <4>1
        <5> QED
          BY <3>3, <4>1, <5>1 DEF BoundTo
      <4>2. CASE v # text
        <5>1. v \in DOMAIN call.got /\ call'.got[v] = call.got[v]
          BY <2>5, <2>6, <3>4, <4>2
        <5>2. PICK r : r = call.got[v]
          OBVIOUS
        <5>3. BoundTo(t, v, r)' /\ call'.got[v] = r
          BY <3>1, <3>2, <5>1, <5>2
        <5> QED
          BY <5>3 DEF BoundTo
      <4> QED
        BY <4>1, <4>2
    <3>6. call'.role = call.role
      BY <2>6
    <3> QED
      BY <2>3, <3>5, <3>6 DEF BoundTo
  <2>9. InHand'
    BY <2>5, <2>6, <2>7, <2>8 DEF CallSound, InHand, Wanted
  <2>10. Settled' /\ \A r \in DOMAIN call.filters \ call.left : Wanted(r) => Done(r)'
    BY <2>6, SettledStays, DoneStays DEF CallSound
  <2> QED
    BY <2>6, <2>9, <2>10 DEF CallSound, Wanted
<1> QED
  BY <1>1, <1>2 DEF Judged

LEMMA BindIdentityStep ==
  ASSUME CallSound, call.stage = "bind", BindIdentity
  PROVE  CallSound'
<1> DEFINE type == TypeOf[call.role]
           out == Target(call.role, type)
           values == {call.got[v].id : v \in DOMAIN call.got}
<1>1. /\ call.role # None /\ call.todo = {} /\ cache' = cache
      /\ Put(call.role, out, values, call.got)
  BY DEF BindIdentity
<1>2. /\ call.role \in call.left /\ Wanted(call.role) /\ out \in Allowed[call.metric]
      /\ DOMAIN call.got = call.filters[call.role]
      /\ \A v \in DOMAIN call.got : BoundTo(type, v, call.got[v])
  BY <1>1 DEF CallSound, InHand
<1>3. call.metric \in Metrics /\ call.role \in Roles /\ call.got \in Partial(Texts, Universe)
  BY <1>2 DEF CallSound, Calling
<1>4. /\ call.got # None /\ out \in Roles /\ type \in Types
      /\ \A v \in DOMAIN call.got : call.got[v] \in Universe
  <2>1. type \in Types
    BY <1>2, <1>3, EntitiesAssumption DEF Wanted
  <2> QED
    BY <1>2, <1>3, <2>1, EntitiesAssumption, InputsAssumption DEF Partial
<1>5. values \in SUBSET Values
  BY <1>4, InputsAssumption DEF Values
<1>6. values = Meant(type, call.filters[call.role])
  <2>1. \A v \in DOMAIN call.got : Named(cache[Key(type, v)].rows, v) = {call.got[v]}
    BY <1>2 DEF BoundTo
  <2>2. \A v \in DOMAIN call.got :
          {row.id : row \in Named(cache[Key(type, v)].rows, v)} = {call.got[v].id}
    BY <2>1
  <2>3. \A x : x \in Meant(type, call.filters[call.role]) <=>
                 \E v \in DOMAIN call.got : x = call.got[v].id
    BY <1>2, <2>1 DEF Meant
  <2> QED
    BY <2>3
<1>7. \A v \in call.filters[call.role] : Key(type, v) \in DOMAIN cache
  BY <1>2 DEF BoundTo
<1>8. \A v \in DOMAIN call.got : \E t \in Types : BoundTo(t, v, call.got[v])
  BY <1>2, <1>4
<1> HIDE DEF out, values
<1>9. PICK role, got : role = call.role /\ got = call.got
  OBVIOUS
<1> QED
  BY <1>1, <1>2, <1>3, <1>4, <1>5, <1>6, <1>7, <1>8, PutStep

LEMMA BeginStep ==
  ASSUME NEW q \in Requests, Begin(q)
  PROVE  CallSound'
<1>1. PICK R \in SUBSET Roles : q.filters \in [R -> (SUBSET Texts) \ {{}}]
  BY InputsAssumption
<1>2. /\ q.metric \in Metrics /\ q.filters \in Partial(Roles, SUBSET Texts)
      /\ DOMAIN q.filters = R /\ \A r \in R : q.filters[r] # {}
  <2>1. q.filters \in [R -> SUBSET Texts]
    BY <1>1
  <2> QED
    BY <1>1, <2>1, InputsAssumption DEF Partial
<1>3. call' = [metric |-> q.metric, filters |-> q.filters, left |-> R,
               role |-> None, todo |-> {}, got |-> <<>>, out |-> <<>>, ids |-> <<>>,
               stage |-> "prefetch"]
  BY <1>2 DEF Begin
<1>4. call' \in Calling
  BY <1>2, <1>3, EmptyIsPartial DEF Calling, Stages
<1>5. DOMAIN call'.got = {} /\ DOMAIN call'.ids = {} /\ DOMAIN call'.out = {}
  BY <1>3, EmptyIsPartial
<1>6. InHand' /\ Settled'
  BY <1>3, <1>5 DEF InHand, Settled
<1> QED
  BY <1>2, <1>3, <1>4, <1>6 DEF CallSound

-----------------------------------------------------------------------------
(* The cache of the call: what is new was read now.                        *)
LEMMA PendingKeys ==
  ASSUME NEW k \in Pending
  PROVE  k \notin DOMAIN cache /\ \E type, text : k = Key(type, text)
<1> DEFINE roles == {r \in (DOMAIN call.filters \cap Allowed[call.metric]) \ Literal :
                       TypeOf[r] # None}
           wanted == UNION {{Key(TypeOf[r], v) : v \in Unknown(r)} : r \in roles}
<1>1. Pending = wanted \ DOMAIN cache
  BY DEF Pending
<1> HIDE DEF roles
<1>2. k \in wanted /\ k \notin DOMAIN cache
  BY <1>1
<1> QED
  BY <1>2

LEMMA LookupsAreGrounded ==
  ASSUME NEW type, NEW text, NEW entry \in Lookup(type, text), NEW k, k = Key(type, text),
         master \subseteq Universe, cache'[k] = entry, k \in DOMAIN seen', seen'[k] = master
  PROVE  Grounded(k)'
<1>1. k[1] = type /\ k[2] = text
  BY DEF Key
<1>2. entry \in Fetches(Found(seen'[k], {k[1]}, k[2], TRUE), k[2])
  BY <1>1 DEF Lookup
<1> QED
  BY <1>2 DEF Grounded

LEMMA GroundedStays ==
  ASSUME Grows, NEW k \in DOMAIN cache, Grounded(k),
         k \in DOMAIN seen => k \in DOMAIN seen' /\ seen'[k] = seen[k]
  PROVE  Grounded(k)'
BY DEF Grows, Grounded

LEMMA PrefetchStep ==
  ASSUME IInv, Prefetch
  PROVE  (\A k \in DOMAIN cache' : Grounded(k)') /\ Grows /\ CallSound'
<1>1. /\ call # None /\ CallSound /\ call.stage = "prefetch"
      /\ master \subseteq Universe /\ \A k \in DOMAIN cache : Grounded(k)
  BY DEF Prefetch, IInv
<1>2. Pending \cap DOMAIN cache = {}
  BY PendingKeys
<1>3. \A k \in Pending : k = Key(k[1], k[2])
  BY PendingKeys DEF Key
<1>4. CASE cache' = cache /\ seen' = seen
  <2>1. Grows
    BY <1>4 DEF Grows
  <2>2. call' = [call EXCEPT !.stage = "bind"] \/ call' = [call EXCEPT !.stage = "refused"]
    BY <1>4 DEF Prefetch, Refuse
  <2>3. CallSound'
    BY <1>1, <2>1, <2>2, StageMoves DEF Stages
  <2> QED
    BY <1>1, <1>4, <2>1, <2>3, GroundedStays
<1>5. ASSUME NEW answers \in [Pending -> UNION {Lookup(k[1], k[2]) : k \in Pending}],
             \A k \in Pending : answers[k] \in Lookup(k[1], k[2]),
             cache' = Updated(cache, answers), seen' = Updated(seen, Read(Pending)),
             call' = [call EXCEPT !.stage = "bind"]
      PROVE  (\A k \in DOMAIN cache' : Grounded(k)') /\ Grows /\ CallSound'
  <2>1. /\ DOMAIN cache' = DOMAIN cache \cup Pending
        /\ \A k \in DOMAIN cache' : cache'[k] = IF k \in Pending THEN answers[k] ELSE cache[k]
    BY <1>5 DEF Updated
  <2>2. /\ DOMAIN seen' = DOMAIN seen \cup Pending
        /\ \A k \in DOMAIN seen' : seen'[k] = IF k \in Pending THEN master ELSE seen[k]
    BY <1>5 DEF Updated, Read
  <2>3. Grows
    BY <1>2, <2>1 DEF Grows
  <2>4. CallSound'
    BY <1>1, <1>5, <2>3, StageMoves DEF Stages
  <2>5. ASSUME NEW k \in DOMAIN cache'
        PROVE  Grounded(k)'
    <3>1. CASE k \in Pending
      <4>1. PICK type, text : type = k[1] /\ text = k[2]
        OBVIOUS
      <4>2. /\ answers[k] \in Lookup(type, text) /\ k = Key(type, text)
            /\ cache'[k] = answers[k] /\ k \in DOMAIN seen' /\ seen'[k] = master
        BY <1>3, <1>5, <2>1, <2>2, <3>1, <4>1
      <4> QED
        BY <1>1, <4>2, LookupsAreGrounded
    <3>2. CASE k \notin Pending
      BY <1>1, <2>1, <2>2, <2>3, <3>2, GroundedStays
    <3> QED
      BY <3>1, <3>2
  <2> QED
    BY <2>3, <2>4, <2>5
<1>6. CASE /\ cache' = Updated(cache, [k \in Pending |-> LookupFailed])
           /\ Refuse /\ seen' = seen
  <2>1. /\ DOMAIN cache' = DOMAIN cache \cup Pending
        /\ \A k \in DOMAIN cache' : cache'[k] = IF k \in Pending THEN LookupFailed ELSE cache[k]
    BY <1>6 DEF Updated
  <2>2. Grows
    BY <1>2, <2>1 DEF Grows
  <2>3. CallSound'
    BY <1>1, <1>6, <2>2, StageMoves DEF Stages, Refuse
  <2>4. ASSUME NEW k \in DOMAIN cache'
        PROVE  Grounded(k)'
    <3>1. CASE k \in Pending
      BY <2>1, <3>1 DEF Grounded, LookupFailed
    <3>2. CASE k \notin Pending
      BY <1>1, <1>6, <2>1, <2>2, <3>2, GroundedStays
    <3> QED
      BY <3>1, <3>2
  <2> QED
    BY <2>2, <2>3, <2>4
<1>7. \/ cache' = cache /\ seen' = seen
      \/ /\ \E answers \in [Pending -> UNION {Lookup(k[1], k[2]) : k \in Pending}] :
              /\ \A k \in Pending : answers[k] \in Lookup(k[1], k[2])
              /\ cache' = Updated(cache, answers)
         /\ seen' = Updated(seen, Read(Pending))
         /\ call' = [call EXCEPT !.stage = "bind"]
      \/ /\ cache' = Updated(cache, [k \in Pending |-> LookupFailed])
         /\ Refuse /\ seen' = seen
  BY DEF Prefetch
<1> QED
  BY <1>4, <1>5, <1>6, <1>7

LEMMA BindTextStep ==
  ASSUME IInv, BindText
  PROVE  (\A k \in DOMAIN cache' : Grounded(k)') /\ Grows /\ CallSound'
<1>1. /\ call # None /\ CallSound /\ call.stage = "bind" /\ call.role # None
      /\ master \subseteq Universe /\ \A k \in DOMAIN cache : Grounded(k)
  BY DEF BindText, Binding, IInv
<1>2. PICK text \in call.todo :
        LET type == TypeOf[call.role]
            key == Key(type, text)
        IN IF ~Missing(key)
           THEN Judged(type, text, cache[key]) /\ UNCHANGED <<cache, seen>>
           ELSE IF Cardinality(DOMAIN cache) >= MaxLookups \/ type \notin Sources
           THEN Refuse /\ UNCHANGED <<cache, seen>>
           ELSE \E entry \in Lookup(type, text) \cup {LookupFailed} :
                  /\ cache' = Stored(cache, key, entry)
                  /\ seen' = Stored(seen, key, master)
                  /\ Judged(type, text, entry)
  BY DEF BindText
<1> DEFINE type == TypeOf[call.role]
           key == Key(type, text)
<1>3. CASE key \in DOMAIN cache
  <2>1. Judged(type, text, cache[key]) /\ cache' = cache /\ seen' = seen
    BY <1>2, <1>3 DEF Missing
  <2>2. Grows
    BY <2>1 DEF Grows
  <2>3. cache[key].ok => cache[key].rows \subseteq Universe
    <3>1. Grounded(key)
      BY <1>1, <1>3
    <3>2. SUFFICES ASSUME cache[key].ok PROVE cache[key].rows \subseteq Universe
      OBVIOUS
    <3>3. seen[key] \subseteq Universe
      BY <3>1, <3>2 DEF Grounded
    <3>4. PICK rows, f, t : /\ rows = Found(seen[key], {key[1]}, key[2], TRUE)
                            /\ f = cache[key] /\ t = key[2]
      OBVIOUS
    <3>5. f \in Fetches(rows, t)
      BY <3>1, <3>2, <3>4 DEF Grounded
    <3>6. f.rows \subseteq rows
      BY <3>5, FetchedRows
    <3>7. rows \subseteq Universe
      BY <3>3, <3>4 DEF Found
    <3> QED
      BY <3>4, <3>6, <3>7
  <2>4. PICK entry : entry = cache[key]
    OBVIOUS
  <2>5. CallSound'
    BY <1>1, <1>3, <2>1, <2>2, <2>3, <2>4, JudgedStep
  <2> QED
    BY <1>1, <2>1, <2>2, <2>5, GroundedStays
<1>4. CASE Refuse /\ cache' = cache /\ seen' = seen
  <2>1. Grows
    BY <1>4 DEF Grows
  <2>2. CallSound'
    BY <1>1, <1>4, <2>1, StageMoves DEF Refuse, Stages
  <2> QED
    BY <1>1, <1>4, <2>1, <2>2, GroundedStays
<1>5. ASSUME key \notin DOMAIN cache, NEW entry \in Lookup(type, text) \cup {LookupFailed},
             cache' = Stored(cache, key, entry), seen' = Stored(seen, key, master),
             Judged(type, text, entry)
      PROVE  (\A k \in DOMAIN cache' : Grounded(k)') /\ Grows /\ CallSound'
  <2>1. /\ DOMAIN cache' = DOMAIN cache \cup {key}
        /\ \A k \in DOMAIN cache' : cache'[k] = IF k = key THEN entry ELSE cache[k]
        /\ DOMAIN seen' = DOMAIN seen \cup {key}
        /\ \A k \in DOMAIN seen' : seen'[k] = IF k = key THEN master ELSE seen[k]
    BY <1>5 DEF Stored
  <2>2. Grows
    BY <1>5, <2>1 DEF Grows
  <2>3. entry.ok => entry \in Lookup(type, text) /\ entry.rows \subseteq Universe
    <3>1. SUFFICES ASSUME entry.ok PROVE entry \in Lookup(type, text) /\ entry.rows \subseteq Universe
      OBVIOUS
    <3>2. entry \in Lookup(type, text)
      BY <1>5, <3>1 DEF LookupFailed
    <3>3. entry.rows \subseteq Found(master, {type}, text, TRUE)
      BY <3>2, FetchedRows DEF Lookup
    <3> QED
      BY <1>1, <3>2, <3>3 DEF Found
  <2>4. CallSound'
    BY <1>1, <1>5, <2>1, <2>2, <2>3, JudgedStep
  <2>5. ASSUME NEW k \in DOMAIN cache'
        PROVE  Grounded(k)'
    <3>1. CASE k = key
      <4>1. cache'[k] = entry /\ k \in DOMAIN seen' /\ seen'[k] = master
        BY <2>1, <3>1
      <4>2. CASE entry.ok
        <5>1. PICK t : t = type
          OBVIOUS
        <5>2. entry \in Lookup(t, text) /\ k = Key(t, text)
          BY <2>3, <3>1, <4>2, <5>1
        <5> QED
          BY <1>1, <4>1, <5>2, LookupsAreGrounded
      <4>3. CASE ~entry.ok
        BY <4>1, <4>3 DEF Grounded
      <4> QED
        BY <4>2, <4>3
    <3>2. CASE k # key
      BY <1>1, <2>1, <2>2, <3>2, GroundedStays
    <3> QED
      BY <3>1, <3>2
  <2> QED
    BY <2>2, <2>4, <2>5
<1> QED
  BY <1>2, <1>3, <1>4, <1>5 DEF Missing

-----------------------------------------------------------------------------
(* Steps that leave the cache of the call, and its end.                    *)
CallQuiet == cache' = cache /\ seen' = seen

LEMMA QuietBinding ==
  ASSUME IInv, BindRole \/ BindIdentity \/ Finish
  PROVE  CallQuiet /\ CallSound'
<1>1. CASE BindRole
  BY <1>1, TakeRoleStep DEF BindRole, Binding, IInv, CallQuiet
<1>2. CASE BindIdentity
  <2>1. CallSound /\ call.stage = "bind" /\ CallQuiet
    BY <1>2 DEF BindIdentity, Binding, IInv, CallQuiet
  <2> QED
    BY <1>2, <2>1, BindIdentityStep
<1>3. CASE Finish
  <2>1. PICK st \in {"bound", "refused"} : call' = [call EXCEPT !.stage = st]
    BY <1>3 DEF Finish
  <2>2. /\ CallSound /\ call.left = {} /\ CallQuiet
    BY <1>3 DEF Finish, Binding, IInv, CallQuiet
  <2>3. Grows
    BY <2>2 DEF Grows, CallQuiet
  <2> QED
    BY <2>1, <2>2, <2>3, StageMoves DEF Stages
<1> QED
  BY <1>1, <1>2, <1>3

LEMMA GroundedWhenQuiet ==
  ASSUME IInv, CallQuiet
  PROVE  \A k \in DOMAIN cache' : Grounded(k)'
BY DEF IInv, CallQuiet, Grounded

LEMMA CallStays ==
  ASSUME IInv, CallQuiet, call' = call, call # None
  PROVE  CallSound'
<1>1. CallSound /\ Grows /\ call.stage \in Stages
  BY DEF IInv, Grows, CallQuiet, CallSound, Calling
<1>2. call' = [call EXCEPT !.stage = call.stage]
  <2>1. call \in Calling
    BY <1>1 DEF CallSound
  <2> QED
    BY <2>1 DEF Calling
<1>3. PICK st \in Stages : st = call.stage
  BY <1>1
<1>4. st = "bound" => call.left = {}
  BY <1>1, <1>3 DEF CallSound
<1> QED
  BY <1>1, <1>2, <1>3, <1>4, StageMoves

LEMMA ResolveRefStep ==
  ASSUME IInv, ResolveRef
  PROVE  ReplySound'
<1>1. PICK ref \in issued, s \in Scopes : \E a \in RefAnswers(master, Contains(refs, ref), ref, s) :
         reply' = [kind |-> "ref", token |-> ref, scope |-> s, answer |-> a, of |-> master]
  BY DEF ResolveRef
<1>2. PICK remembered : remembered = Contains(refs, ref)
  OBVIOUS
<1>3. PICK a \in RefAnswers(master, remembered, ref, s) :
         reply' = [kind |-> "ref", token |-> ref, scope |-> s, answer |-> a, of |-> master]
  BY <1>1, <1>2
<1>4. ref.value \in Texts /\ master \in SUBSET Universe
  BY DEF IInv
<1>5. a \in RefAnswers(master, FALSE, ref, s)
  BY <1>4, WarmIsCold
<1> QED
  BY <1>3, <1>4, <1>5 DEF ReplySound

LEMMA IssueStep ==
  ASSUME IInv, Issue
  PROVE  \A ref \in issued' : ref.value \in Texts
<1>1. \A ref \in issued : ref.value \in Texts
  BY DEF IInv
<1>2. CASE \E r \in DOMAIN call.ids : \E v \in DOMAIN call.ids[r] :
             Give([role |-> r, value |-> call.ids[r][v].id])
  <2>0. PICK r \in DOMAIN call.ids : \E v \in DOMAIN call.ids[r] :
          issued' = issued \cup {[role |-> r, value |-> call.ids[r][v].id]}
    BY <1>2 DEF Give
  <2>1. PICK v \in DOMAIN call.ids[r] :
          issued' = issued \cup {[role |-> r, value |-> call.ids[r][v].id]}
    BY <2>0
  <2>2. call.ids \in Partial(Roles, Partial(Texts, Universe))
    BY DEF Issue, IInv, CallSound, Calling
  <2>3. call.ids[r] \in Partial(Texts, Universe)
    BY <2>2 DEF Partial
  <2>4. call.ids[r][v] \in Universe
    BY <2>3 DEF Partial
  <2> QED
    BY <1>1, <2>1, <2>4, InputsAssumption
<1>3. CASE \E r \in Roles : \E row \in master :
             TypeOf[r] = row.type /\ Give([role |-> r, value |-> row.id])
  <2>1. PICK r \in Roles, row \in master : issued' = issued \cup {[role |-> r, value |-> row.id]}
    BY <1>3 DEF Give
  <2>2. row \in Universe
    BY DEF IInv
  <2> QED
    BY <1>1, <2>1, <2>2, InputsAssumption
<1> QED
  BY <1>2, <1>3 DEF Issue

LEMMA ReplyStays ==
  ASSUME IInv, reply' = reply \/ reply' = None
  PROVE  reply' # None => ReplySound'
BY DEF IInv, ReplySound

LEMMA Initially ==
  ASSUME Init
  PROVE  IInv
BY DEF Init, IInv

LEMMA Step ==
  ASSUME IInv, [Next]_vars
  PROVE  IInv' /\ (call # None /\ call' # None => Grows)
<1>1. /\ master \subseteq Universe /\ \A ref \in issued : ref.value \in Texts
      /\ call # None => CallSound
  BY DEF IInv
<1>2. CallQuiet => Grows
  BY DEF CallQuiet, Grows
<1>3. CASE UNCHANGED vars
  <2>1. CallQuiet /\ call' = call /\ reply' = reply /\ issued' = issued /\ master' = master
    BY <1>3 DEF vars, CallQuiet
  <2> QED
    BY <1>1, <1>2, <2>1, GroundedWhenQuiet, CallStays, ReplyStays DEF IInv
<1>4. CASE Change
  <2>1. CallQuiet /\ call' = call /\ reply' = None /\ issued' = issued
    BY <1>4 DEF Change, CallQuiet
  <2>2. master' \subseteq Universe
    BY <1>1, <1>4 DEF Change
  <2> QED
    BY <1>1, <1>2, <2>1, <2>2, GroundedWhenQuiet, CallStays DEF IInv
<1>5. CASE Restart
  <2>1. CallQuiet /\ call' = call /\ reply' = None /\ issued' = issued /\ master' = master
    BY <1>5 DEF Restart, CallQuiet
  <2> QED
    BY <1>1, <1>2, <2>1, GroundedWhenQuiet, CallStays DEF IInv
<1>6. CASE Resolve
  <2>1. CallQuiet /\ call' = call /\ issued' = issued /\ master' = master
    BY <1>6 DEF Resolve, CallQuiet
  <2>2. ReplySound'
    BY <1>1, <1>6 DEF Resolve, ReplySound
  <2> QED
    BY <1>1, <1>2, <2>1, <2>2, GroundedWhenQuiet, CallStays DEF IInv
<1>7. CASE ResolveRef
  <2>1. CallQuiet /\ call' = call /\ issued' = issued /\ master' = master
    BY <1>7 DEF ResolveRef, CallQuiet
  <2> QED
    BY <1>1, <1>2, <1>7, <2>1, ResolveRefStep, GroundedWhenQuiet, CallStays DEF IInv
<1>8. CASE Ask
  <2>1. /\ call = None /\ cache' = <<>> /\ reply' = None /\ issued' = issued /\ master' = master
        /\ \E q \in Requests : Begin(q)
    BY <1>8 DEF Ask, Ready
  <2>2. CallSound' /\ DOMAIN cache' = {}
    BY <2>1, BeginStep
  <2> QED
    BY <1>1, <2>1, <2>2 DEF IInv
<1>9. CASE AskMore
  <2>1. /\ CallQuiet /\ reply' = reply /\ issued' = issued /\ master' = master
        /\ \E q \in Requests : Begin(q)
    BY <1>9 DEF AskMore, CallQuiet
  <2>2. CallSound'
    BY <2>1, BeginStep
  <2> QED
    BY <1>1, <1>2, <2>1, <2>2, GroundedWhenQuiet, ReplyStays DEF IInv
<1>10. CASE Prefetch
  <2>1. reply' = reply /\ issued' = issued /\ master' = master
    BY <1>10 DEF Prefetch
  <2> QED
    BY <1>1, <1>10, <2>1, PrefetchStep, ReplyStays DEF IInv
<1>11. CASE BindText
  <2>1. reply' = reply /\ issued' = issued /\ master' = master
    BY <1>11 DEF BindText
  <2> QED
    BY <1>1, <1>11, <2>1, BindTextStep, ReplyStays DEF IInv
<1>12. CASE BindRole \/ BindIdentity \/ Finish
  <2>1. reply' = reply /\ issued' = issued /\ master' = master
    BY <1>12 DEF BindRole, BindIdentity, Finish
  <2> QED
    BY <1>1, <1>2, <1>12, <2>1, QuietBinding, GroundedWhenQuiet, ReplyStays DEF IInv
<1>13. CASE Issue
  <2>1. CallQuiet /\ call' = call /\ reply' = reply /\ master' = master
    BY <1>13 DEF Issue, CallQuiet
  <2> QED
    BY <1>1, <1>2, <1>13, <2>1, IssueStep, GroundedWhenQuiet, CallStays, ReplyStays DEF IInv
<1>14. CASE End
  <2>1. /\ call' = None /\ cache' = <<>> /\ reply' = reply /\ issued' = issued
        /\ master' = master
    BY <1>14 DEF End
  <2> QED
    BY <1>1, <2>1, ReplyStays DEF IInv
<1> QED
  BY <1>3, <1>4, <1>5, <1>6, <1>7, <1>8, <1>9, <1>10, <1>11, <1>12, <1>13, <1>14 DEF Next

(* The invariant holds in every reachable state, for any registry, master  *)
(* data, collation and requests.                                           *)
THEOREM Invariance == Spec => []IInv
<1>1. Init => IInv
  BY Initially
<1>2. IInv /\ [Next]_vars => IInv'
  BY Step
<1> QED
  BY <1>1, <1>2, PTL DEF Spec

-----------------------------------------------------------------------------
(* A call reads a text once: its cache is never changed, only added to,    *)
(* whatever its requests and whatever changes between them.                *)
THEOREM OneMeaningInACall == Spec => OneMeaning
<1>1. IInv /\ [Next]_vars =>
        [call # None /\ call' # None =>
           \A k \in DOMAIN cache : k \in DOMAIN cache' /\ cache'[k] = cache[k]]_vars
  BY Step DEF Grows
<1> QED
  BY <1>1, Invariance, PTL DEF Spec, OneMeaning

(* A filter that was bound is bound to the one entity each text names in   *)
(* the master data its lookup read, in a role of the metric, none widened  *)
(* and none left out.                                                      *)
LEMMA BoundRows ==
  ASSUME IInv, NEW type, NEW text \in Texts, NEW row, BoundTo(type, text, row)
  PROVE  /\ row.type = type /\ \E x \in TextsOf(row) : Same(x, text)
         /\ {q \in seen[Key(type, text)] : q.type = type /\ Calls(q, text)} \subseteq {row}
<1> DEFINE k == Key(type, text)
           T == seen[k]
<1>1. k \in DOMAIN cache /\ cache[k].ok /\ ~cache[k].truncated /\ Named(cache[k].rows, text) = {row}
  BY DEF BoundTo
<1>2. Grounded(k) /\ k[1] = type /\ k[2] = text
  BY <1>1 DEF IInv, Key
<1>3. T \subseteq Universe /\ cache[k] \in Fetches(Found(T, {type}, text, TRUE), text)
  BY <1>1, <1>2 DEF Grounded
<1>4. cache[k].rows = Found(T, {type}, text, TRUE)
  <2>1. PICK rows, f : rows = Found(T, {type}, text, TRUE) /\ f = cache[k]
    OBVIOUS
  <2>2. f \in Fetches(rows, text) /\ ~f.truncated
    BY <1>1, <1>3, <2>1
  <2>3. f.rows = rows
    BY <2>2, FetchedRows
  <2> QED
    BY <2>1, <2>3
<1>5. row \in Found(T, {type}, text, TRUE) /\ \E x \in TextsOf(row) : Same(x, text)
  BY <1>1, <1>4 DEF Named
<1>6. ASSUME NEW q \in T, q.type = type, Calls(q, text)
      PROVE  q = row
  <2>1. q \in Universe
    BY <1>3
  <2>2. CASE text \in {q.id, q.code}
    <3>1. text # None
      BY EntitiesAssumption
    <3> QED
      BY <1>1, <1>4, <1>6, <2>2, <3>1 DEF Named, Found, Exact, TextsOf, Same
  <2>3. CASE Same(q.name, text) \/ Same(q.code, text)
    <3>1. q \in Named(Found(T, {type}, text, TRUE), text)
      BY <1>3, <1>6, <2>1, <2>3, NamedIsFound
    <3> QED
      BY <1>1, <1>4, <3>1
  <2> QED
    BY <1>6, <2>2, <2>3 DEF Calls
<1> QED
  BY <1>5, <1>6 DEF Found

THEOREM FiltersBoundAsNamed == Spec => []BoundAsNamed
<1>1. ASSUME IInv, call # None, call.stage = "bound"
      PROVE  BoundAsNamed
  <2>1. CallSound /\ call.left = {} /\ Settled /\ call \in Calling
    BY <1>1 DEF IInv, CallSound
  <2>2. ASSUME NEW r \in DOMAIN call.ids
        PROVE  /\ r \in Allowed[call.metric]
               /\ \A v \in DOMAIN call.ids[r] :
                    LET row == call.ids[r][v]
                    IN /\ \E x \in TextsOf(row) : Same(x, v)
                       /\ {q \in seen[Key(row.type, v)] : q.type = row.type /\ Calls(q, v)}
                            \subseteq {row}
    <3>1. r \in Allowed[call.metric]
      BY <2>1 DEF Settled
    <3>2. ASSUME NEW v \in DOMAIN call.ids[r], NEW row, row = call.ids[r][v]
          PROVE  /\ \E x \in TextsOf(row) : Same(x, v)
                 /\ {q \in seen[Key(row.type, v)] : q.type = row.type /\ Calls(q, v)}
                      \subseteq {row}
      <4>1. PICK type \in Types : BoundTo(type, v, row)
        BY <2>1, <3>2 DEF Settled
      <4>2. v \in Texts
        <5>1. call.ids \in Partial(Roles, Partial(Texts, Universe))
          BY <2>1 DEF Calling
        <5>2. call.ids[r] \in Partial(Texts, Universe)
          BY <5>1 DEF Partial
        <5> QED
          BY <5>2 DEF Partial
      <4> QED
        BY <1>1, <4>1, <4>2, BoundRows
    <3> QED
      BY <3>1, <3>2
  <2>3. ASSUME NEW r \in DOMAIN call.filters \ Literal, TypeOf[r] # None
        PROVE  \E out \in DOMAIN call.ids : call.out[out] = Meant(TypeOf[r], call.filters[r])
    BY <2>1, <2>3 DEF CallSound, Wanted, Done
  <2> QED
    BY <2>2, <2>3 DEF BoundAsNamed
<1>2. IInv => BoundAsNamed
  BY <1>1 DEF BoundAsNamed
<1> QED
  BY <1>2, Invariance, PTL

(* What datasage_entity_resolve calls resolved is the only one meant; and  *)
(* a reference means the same whether the process remembers it or not.     *)
THEOREM TokensMeantAsAsked == Spec => []MeantAsAsked
<1>1. IInv => ResolvedIsMeant
  <2>1. SUFFICES ASSUME IInv, reply # None, reply.kind = "text",
                        reply.answer.status = "resolved", ~reply.answer.truncated
                 PROVE  ResolvedIsMeant
    BY DEF ResolvedIsMeant
  <2>2. PICK T, text, s, a : /\ T = reply.of /\ text = reply.token /\ s = reply.scope
                             /\ a = reply.answer
    OBVIOUS
  <2>3. /\ T \in SUBSET Universe /\ text \in Texts /\ s \in Scopes
        /\ a \in Answers(T, text, s) /\ a.status = "resolved" /\ ~a.truncated
    BY <2>1, <2>2 DEF IInv, ReplySound
  <2>4. Resolves(T, text, s, a)
    BY <2>3, ResolvedMeans
  <2> QED
    BY <2>2, <2>4 DEF Resolves, ResolvedIsMeant
<1>2. IInv => RememberedOrNot
  <2>1. SUFFICES ASSUME IInv, reply # None, reply.kind = "ref"
                 PROVE  RememberedOrNot
    BY DEF RememberedOrNot
  <2>2. PICK T, ref, s, a : T = reply.of /\ ref = reply.token /\ s = reply.scope /\ a = reply.answer
    OBVIOUS
  <2>3. T \in SUBSET Universe /\ s \in Scopes /\ a \in RefAnswers(T, FALSE, ref, s)
    BY <2>1, <2>2 DEF IInv, ReplySound
  <2>4. \A c \in a.cands :
          ref.value \in {c.row.id, c.row.code} /\ ref.role \in LogicalRoles(c.type, s)
    BY <2>3, ReferenceMeans
  <2> QED
    BY <2>2, <2>3, <2>4 DEF RememberedOrNot
<1> QED
  BY <1>1, <1>2, Invariance, PTL DEF MeantAsAsked
=============================================================================
