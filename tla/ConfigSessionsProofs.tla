------------------------ MODULE ConfigSessionsProofs ------------------------
(***************************************************************************)
(* Proofs about ConfigSessions, for any number of requests, sessions,      *)
(* symbols, intervals, providers and crashes.                              *)
(***************************************************************************)
EXTENDS ConfigSessions, FiniteSetTheorems, TLAPS

(* A set of symbols as a list.                                             *)
LEMMA OnceFacts ==
  ASSUME NEW S \in SUBSET Symbols
  PROVE  /\ Once(S) \in Lists
         /\ Members(Once(S)) = S
         /\ Distinct(Once(S))
<1>1. \A x \in Symbols : Once(S)[x] = IF x \in S THEN 1 ELSE 0
  BY DEF Once
<1>2. Once(S) \in Lists
  BY DEF Once, Lists
<1>3. \A x \in Symbols : Once(S)[x] > 0 <=> x \in S
  BY <1>1
<1>4. Members(Once(S)) = S
  BY <1>3, Zenon DEF Members
<1>5. Distinct(Once(S))
  BY <1>1 DEF Distinct
<1> QED BY <1>2, <1>4, <1>5

(* A canonical name is a symbol.                                           *)
LEMMA CanonicalType ==
  ASSUME NEW p \in Providers, NEW x \in Symbols
  PROVE  CanonicalSymbol(p, x) \in Symbols
<1> DEFINE listed == {a \in Symbols : <<p, a, x>> \in Listing}
<1>1. CASE listed = {}
  BY <1>1 DEF CanonicalSymbol
<1>2. CASE listed # {}
  <2>1. (CHOOSE a \in listed : TRUE) \in listed
    BY <1>2
  <2> QED BY <1>2, <2>1 DEF CanonicalSymbol
<1> QED BY <1>1, <1>2

(* Renaming keeps every symbol, and two that become one are there twice.   *)
LEMMA RenamedFacts ==
  ASSUME NEW p \in Providers, NEW S \in SUBSET Symbols
  PROVE  LET image == {CanonicalSymbol(p, x) : x \in S}
         IN /\ Renamed(p, S) \in Lists
            /\ Members(Renamed(p, S)) = image
            /\ Distinct(Renamed(p, S)) =>
                 Cardinality(image) = Cardinality(S)
<1> DEFINE image == {CanonicalSymbol(p, x) : x \in S}
           From(x) == {y \in S : CanonicalSymbol(p, y) = x}
<1>1. IsFiniteSet(S)
  BY ConstantsAssumption, FS_Subset
<1>2. ASSUME NEW x \in Symbols
      PROVE  /\ Renamed(p, S)[x] = Cardinality(From(x))
             /\ IsFiniteSet(From(x)) /\ Cardinality(From(x)) \in Nat
             /\ Cardinality(From(x)) = 0 <=> From(x) = {}
  <2>1. IsFiniteSet(From(x))
    BY <1>1, FS_Subset
  <2> QED BY <2>1, FS_CardinalityType, FS_EmptySet DEF Renamed
<1>3. Renamed(p, S) \in Lists
  <2>1. \A x \in Symbols : Cardinality(From(x)) \in Nat
    BY <1>2
  <2> QED BY <2>1 DEF Renamed, Lists
<1>4. Members(Renamed(p, S)) = image
  <2>1. ASSUME NEW x \in Symbols
        PROVE  Renamed(p, S)[x] > 0 <=> From(x) # {}
    <3> HIDE DEF From
    <3> QED BY <1>2
  <2>2. \A x \in S : CanonicalSymbol(p, x) \in Symbols
    BY CanonicalType
  <2> QED BY <2>1, <2>2 DEF Members
<1>5. ASSUME Distinct(Renamed(p, S))
      PROVE  Cardinality(image) = Cardinality(S)
  <2>1. ASSUME NEW y \in S, NEW z \in S,
               CanonicalSymbol(p, y) = CanonicalSymbol(p, z)
        PROVE  y = z
    <3>1. CanonicalSymbol(p, y) \in Symbols
      BY CanonicalType
    <3> DEFINE F == From(CanonicalSymbol(p, y))
    <3>2. y \in F /\ z \in F
      BY <2>1
    <3>3. /\ IsFiniteSet(F) /\ Cardinality(F) \in Nat
          /\ Cardinality(F) <= 1
      BY <1>2, <1>5, <3>1 DEF Distinct
    <3> HIDE DEF F
    <3>4. Cardinality(F) # 0
      BY <3>2, <3>3, FS_EmptySet
    <3>5. Cardinality(F) = 1
      BY <3>3, <3>4
    <3>6. PICK e : F = {e}
      BY <3>3, <3>5, FS_Singleton
    <3> QED BY <3>2, <3>6
  <2> DEFINE f == [x \in S |-> CanonicalSymbol(p, x)]
  <2>2. f \in Bijection(S, image)
    BY <2>1 DEF Bijection, Injection, Surjection, IsInjective
  <2>3. ExistsBijection(S, image)
    BY <2>2 DEF ExistsBijection
  <2> QED BY <1>1, <2>3, FS_Bijection
<1> QED BY <1>3, <1>4, <1>5

(* At the start nothing is open and nobody works.                          *)
LEMMA InitInv == Init => IInv
BY OnceFacts, ConstantsAssumption, NoneAssumption, EarlierAssumption
   DEF Init, IInv, TypeOK, OpInv, OpOf, SidInv, SidOf, BaseInv, ReadInv,
       ReadOf, FilledInv, FilledOf, CopyInv, SpentInv, SavedOnce,
       ConfigureSurvivesRace, Rows, Sessions, Chosen, Req, NewReq, Ops, PCs,
       Working, Idle

-----------------------------------------------------------------------------
(* Types                                                                   *)

(* What a request starts with.                                             *)
LEMMA NewReqType == ASSUME NEW op \in Ops PROVE NewReq(op) \in Req
BY OnceFacts, ConstantsAssumption DEF NewReq, Req

(* What the first of the three queries adds to a request.                  *)
LEMMA SetFields ==
  ASSUME NEW r \in Req, NEW b \in Nat, NEW e \in BOOLEAN,
         NEW p \in Providers
  PROVE  [r EXCEPT !.base = b, !.enabled = e, !.provider = p] \in Req
BY DEF Req

(* The answer to a request.                                                *)
LEMMA AnswerType ==
  ASSUME TypeOK, NEW q \in Requests, NEW outcome \in Idle,
         Answer(q, outcome)
  PROVE  pc' \in [Requests -> PCs] /\ req' \in [Requests -> Req]
<1>1. req[q].op \in Ops
  BY DEF TypeOK, Req
<1> QED BY <1>1, NewReqType DEF TypeOK, Answer, Goto, SetReq, PCs

(* What a first command inserts.                                           *)
LEMMA DefaultType ==
  DefaultRow \in Rows /\ DefaultRow # NoRow /\ DefaultRow.version = 0
<1>1. /\ {DefaultSymbol} \in Chosen(Symbols)
      /\ {DefaultInterval} \in Chosen(Intervals)
      /\ DefaultProvider \in Providers
  BY ConstantsAssumption DEF Chosen
<1>2. DefaultRow \in Rows
  BY <1>1 DEF DefaultRow, Rows
<1> QED BY <1>2, NoneAssumption DEF DefaultRow

(* What an edit makes of a session is a session with the same base.        *)
LEMMA EditType ==
  ASSUME NEW c \in Sessions, NEW d \in EditsOf(c)
  PROVE  d \in Sessions /\ d.base = c.base
<1>1. ASSUME NEW p \in EnabledProviders,
             d = [c EXCEPT !.provider = p,
                    !.symbols =
                      FilterSymbols(c.symbols, AvailableSymbols(p)),
                    !.intervals = c.intervals \cap AvailableIntervals(p)]
      PROVE  d \in Sessions /\ d.base = c.base
  <2>1. FilterSymbols(c.symbols, AvailableSymbols(p)) \in Lists
    BY DEF FilterSymbols, Sessions, Lists
  <2> QED BY <1>1, <2>1, ConstantsAssumption DEF Sessions
<1>2. ASSUME NEW x \in Symbols,
             d = [c EXCEPT !.symbols = ToggleSymbol(c.symbols, x)]
      PROVE  d \in Sessions /\ d.base = c.base
  <2>1. ToggleSymbol(c.symbols, x) \in Lists
    BY DEF ToggleSymbol, Sessions, Lists
  <2> QED BY <1>2, <2>1 DEF Sessions
<1>3. ASSUME NEW i \in Intervals,
             d = [c EXCEPT !.intervals = Toggle(c.intervals, i)]
      PROVE  d \in Sessions /\ d.base = c.base
  BY <1>3 DEF Sessions, Toggle
<1>4. /\ \A p \in EnabledProviders : AvailableSymbols(p) \subseteq Symbols
      /\ \A p \in EnabledProviders :
           AvailableIntervals(p) \subseteq Intervals
  BY DEF AvailableSymbols, AvailableIntervals
<1> QED BY <1>1, <1>2, <1>3, <1>4 DEF EditsOf

(* The provider that is used instead of one that is gone is not replaced   *)
(* again.                                                                  *)
LEMMA EffectiveType ==
  ASSUME NEW p \in Providers
  PROVE  /\ EffectiveProvider(p) \in EnabledProviders
         /\ EffectiveProvider(EffectiveProvider(p)) = EffectiveProvider(p)
BY ConstantsAssumption DEF EffectiveProvider

(* A configuration brought up to date is a request's with the same base.   *)
LEMMA BroughtType ==
  ASSUME NEW r \in Req
  PROVE  /\ Brought(r) \in Req
         /\ Brought(r).op = r.op /\ Brought(r).sid = r.sid
         /\ Brought(r).base = r.base /\ Brought(r).intervals = r.intervals
         /\ EffectiveProvider(Brought(r).provider)
              = EffectiveProvider(r.provider)
         /\ Brought(r).symbols \in
              {r.symbols,
               Renamed(EffectiveProvider(r.provider), Members(r.symbols))}
<1> DEFINE p == EffectiveProvider(r.provider)
           named == Renamed(p, Members(r.symbols))
<1>1. /\ p \in Providers
      /\ EffectiveProvider(p) = p
  BY EffectiveType, ConstantsAssumption DEF Req
<1>2. Members(r.symbols) \in SUBSET Symbols
  BY DEF Members
<1>3. named \in Lists
  BY <1>1, <1>2, RenamedFacts
<1>4. CASE r.op = "first"
  BY <1>4 DEF Brought
<1>5. CASE r.op # "first"
  <2>1. Brought(r) = [r EXCEPT !.provider = p, !.symbols = named]
    BY <1>5 DEF Brought
  <2> HIDE DEF p, named
  <2>2. /\ Brought(r) \in Req
        /\ Brought(r).op = r.op /\ Brought(r).sid = r.sid
        /\ Brought(r).base = r.base /\ Brought(r).intervals = r.intervals
        /\ Brought(r).provider = p /\ Brought(r).symbols = named
    BY <1>1, <1>3, <2>1 DEF Req
  <2> QED BY <1>1, <2>2 DEF p, named
<1> QED BY <1>4, <1>5

-----------------------------------------------------------------------------
(* What the larger steps do                                                *)

(* A session is opened on what was read, brought up to date.               *)
LEMMA OpenFacts ==
  ASSUME TypeOK, OpInv, SidInv, NEW q \in Requests, Open(q)
  PROVE  /\ pc[q] = "open" /\ req[q].sid \in SessionIds
         /\ req[q].op \in Opening
         /\ pc' = [pc EXCEPT ![q] = "done"]
         /\ req' = [req EXCEPT ![q] = NewReq(req[q].op)]
         /\ opened' = opened \cup {req[q].sid}
         /\ UNCHANGED <<row, counters, history>>
         /\ \E d \in Sessions :
              /\ sessions' = [sessions EXCEPT ![req[q].sid] = d]
              /\ d.base = req[q].base /\ d.intervals = req[q].intervals
              /\ EffectiveProvider(d.provider)
                   = EffectiveProvider(req[q].provider)
              /\ d.symbols \in
                   {req[q].symbols,
                    Renamed(EffectiveProvider(req[q].provider),
                            Members(req[q].symbols))}
<1> DEFINE c == Brought(req[q])
           d == [base |-> c.base, provider |-> c.provider,
                 symbols |-> c.symbols, intervals |-> c.intervals]
<1>1. /\ pc[q] = "open" /\ req[q].op \in Opening
      /\ req[q] \in Req /\ req[q].sid \in SessionIds
  BY DEF Open, TypeOK, OpInv, OpOf, SidInv, SidOf, Working
<1>2. /\ c \in Req /\ c.sid = req[q].sid
      /\ c.base = req[q].base /\ c.intervals = req[q].intervals
      /\ EffectiveProvider(c.provider) = EffectiveProvider(req[q].provider)
      /\ c.symbols \in
           {req[q].symbols,
            Renamed(EffectiveProvider(req[q].provider),
                    Members(req[q].symbols))}
  BY <1>1, BroughtType
<1>3. /\ pc' = [pc EXCEPT ![q] = "done"]
      /\ req' = [req EXCEPT ![q] = NewReq(req[q].op)]
      /\ opened' = opened \cup {c.sid}
      /\ sessions' = [sessions EXCEPT ![c.sid] = d]
      /\ UNCHANGED <<row, counters, history>>
  BY DEF Open, Answer, Goto, SetReq
<1> HIDE DEF c
<1>4. d \in Sessions
  BY <1>2 DEF Req, Sessions
<1> QED BY <1>1, <1>2, <1>3, <1>4

(* The first read of enable and pause, for the version alone.              *)
LEMMA VersionFacts ==
  ASSUME TypeOK, NEW q \in Requests, ReadVersion(q)
  PROVE  /\ pc[q] = "version"
         /\ UNCHANGED <<store, counters, history>>
         /\ \/ /\ pc' = [pc EXCEPT ![q] = "refused"]
               /\ req' = [req EXCEPT ![q] = NewReq(req[q].op)]
            \/ \E r \in Req :
                 /\ row # NoRow
                 /\ pc' = [pc EXCEPT ![q] = "row"]
                 /\ req' = [req EXCEPT ![q] = r]
                 /\ r.op = req[q].op /\ r.sid = req[q].sid
                 /\ r.base = row.version
<1>1. CASE row = NoRow
  BY <1>1 DEF ReadVersion, Answer, Goto, SetReq
<1>2. CASE row # NoRow
  <2> DEFINE r == [req[q] EXCEPT !.base = row.version]
  <2>1. req[q] \in Req /\ row \in Rows
    BY <1>2 DEF TypeOK
  <2>2. /\ r \in Req /\ r.op = req[q].op /\ r.sid = req[q].sid
        /\ r.base = row.version
    BY <2>1 DEF Req, Rows
  <2>3. /\ pc[q] = "version" /\ UNCHANGED <<store, counters, history>>
        /\ pc' = [pc EXCEPT ![q] = "row"]
        /\ req' = [req EXCEPT ![q] = r]
    BY <1>2 DEF ReadVersion, Goto, SetReq
  <2> HIDE DEF r
  <2> QED BY <1>2, <2>2, <2>3
<1> QED BY <1>1, <1>2

(* An edit is stored over whatever the session holds.                      *)
LEMMA UpdateFacts ==
  ASSUME TypeOK, OpInv, SidInv, NEW q \in Requests, UpdateSession(q)
  PROVE  /\ pc[q] = "edit" /\ req[q].sid \in SessionIds
         /\ req' = [req EXCEPT ![q] = NewReq(req[q].op)]
         /\ UNCHANGED <<row, opened, counters, committed>>
         /\ \/ /\ pc' = [pc EXCEPT ![q] = "refused"]
               /\ UNCHANGED <<sessions, edited>>
            \/ \E d \in Sessions :
                 /\ pc' = [pc EXCEPT ![q] = "done"]
                 /\ sessions[req[q].sid] # NoSession
                 /\ sessions' = [sessions EXCEPT ![req[q].sid] = d]
                 /\ d.base = req[q].base
                 /\ edited' = edited \cup {req[q].sid}
<1> DEFINE c == [base |-> req[q].base, provider |-> req[q].provider,
                 symbols |-> req[q].symbols, intervals |-> req[q].intervals]
<1>1. pc[q] = "edit" /\ req[q].sid \in SessionIds /\ req[q] \in Req
  BY DEF UpdateSession, TypeOK, OpInv, OpOf, SidInv, SidOf, Working
<1>2. c \in Sessions /\ c.base = req[q].base
  BY <1>1 DEF Req, Sessions
<1>3. \A d \in EditsOf(c) : d \in Sessions /\ d.base = c.base
  BY <1>2, EditType
<1>4. CASE sessions[req[q].sid] = NoSession
  BY <1>1, <1>4 DEF UpdateSession, Answer, Goto, SetReq
<1>5. CASE sessions[req[q].sid] # NoSession
  <2>1. PICK d \in EditsOf(c) : sessions' = [sessions EXCEPT ![req[q].sid] = d]
    BY <1>5 DEF UpdateSession
  <2>2. d \in Sessions /\ d.base = req[q].base
    BY <1>2, <1>3, <2>1
  <2>3. /\ req' = [req EXCEPT ![q] = NewReq(req[q].op)]
        /\ UNCHANGED <<row, opened, counters, committed>>
        /\ pc' = [pc EXCEPT ![q] = "done"]
        /\ edited' = edited \cup {req[q].sid}
    BY <1>5 DEF UpdateSession, Answer, Goto, SetReq
  <2> HIDE DEF c
  <2> QED BY <1>1, <1>5, <2>1, <2>2, <2>3
<1> QED BY <1>4, <1>5

(* What the check before a save makes of the request.                      *)
LEMMA CheckFacts ==
  ASSUME TypeOK, BaseInv, NEW q \in Requests, CheckSession(q)
  PROVE  /\ pc[q] = "check"
         /\ UNCHANGED <<store, counters, history>>
         /\ \/ \E r \in Req :
                 /\ pc' = [pc EXCEPT ![q] = "begin"]
                 /\ req' = [req EXCEPT ![q] = r]
                 /\ r.op = req[q].op /\ r.sid = req[q].sid
                 /\ r.base = req[q].base /\ r.base = row.version
                 /\ r.enabled = row.enabled
                 /\ r.provider = EffectiveProvider(req[q].provider)
                 /\ r.symbols = req[q].symbols /\ Members(r.symbols) # {}
                 /\ Distinct(r.symbols)
                 /\ r.intervals = req[q].intervals /\ r.intervals # {}
                 /\ Served(r)
            \/ /\ pc' = [pc EXCEPT ![q] = "refused"]
               /\ req' = [req EXCEPT ![q] = NewReq(req[q].op)]
<1>1. pc[q] = "check" /\ UNCHANGED <<store, counters, history>>
  BY DEF CheckSession
<1>2. CASE row.version = req[q].base /\ Valid(req[q].provider, req[q].symbols,
                                         req[q].intervals)
  <2> DEFINE r == [req[q] EXCEPT
                    !.enabled = row.enabled,
                    !.provider = EffectiveProvider(req[q].provider)]
  <2>1. row \in Rows /\ req[q] \in Req
    BY <1>1 DEF TypeOK, BaseInv, Working
  <2>2. /\ row.enabled \in BOOLEAN
        /\ EffectiveProvider(req[q].provider) \in Providers
    BY <2>1, EffectiveType, ConstantsAssumption DEF Rows, Req
  <2>3. /\ r \in Req
        /\ r.op = req[q].op /\ r.sid = req[q].sid
        /\ r.base = req[q].base /\ r.enabled = row.enabled
        /\ r.provider = EffectiveProvider(req[q].provider)
        /\ r.symbols = req[q].symbols /\ r.intervals = req[q].intervals
    BY <2>1, <2>2 DEF Req
  <2>4. /\ Members(req[q].symbols) # {} /\ req[q].intervals # {}
        /\ Distinct(req[q].symbols)
    BY <1>2 DEF Valid
  <2>5. pc' = [pc EXCEPT ![q] = "begin"] /\ req' = [req EXCEPT ![q] = r]
    BY <1>2 DEF CheckSession, Goto, SetReq
  <2> HIDE DEF r
  <2>6. Served(r)
    <3>1. {EffectiveProvider(req[q].provider)} \X Members(req[q].symbols)
            \X req[q].intervals \subseteq Supported
      BY <1>2 DEF Valid
    <3>2. EffectiveProvider(req[q].provider) \in EnabledProviders
      BY <2>1, EffectiveType DEF Req
    <3> QED BY <2>3, <3>1, <3>2 DEF Served
  <2> QED BY <1>1, <1>2, <2>3, <2>4, <2>5, <2>6
<1>3. CASE ~(/\ row.version = req[q].base
             /\ Valid(req[q].provider, req[q].symbols, req[q].intervals))
  BY <1>1, <1>3 DEF CheckSession, Answer, Goto, SetReq
<1> QED BY <1>2, <1>3

(* A commit: refused, or the next version is stored.                       *)
LEMMA CommitFacts ==
  ASSUME TypeOK, OpInv, SidInv, BaseInv, FilledInv,
         NEW q \in Requests, CommitReplace(q)
  PROVE  /\ pc[q] = "commit"
         /\ UNCHANGED <<sessions, opened, counters, edited>>
         /\ \/ /\ UNCHANGED <<row, committed>>
               /\ pc' = [pc EXCEPT ![q] = "refused"]
               /\ req' = [req EXCEPT ![q] = NewReq(req[q].op)]
            \/ /\ row \in Rows /\ row.version = req[q].base
               /\ row' \in Rows /\ row' # NoRow
               /\ row'.version = row.version + 1
               /\ row'.enabled = req[q].enabled
               /\ row'.provider = req[q].provider
               /\ row'.symbols = Members(req[q].symbols)
               /\ row'.intervals = req[q].intervals
               /\ \/ req[q].op # "save" /\ committed' = committed
                  \/ /\ req[q].op = "save" /\ req[q].sid \in SessionIds
                     /\ committed' =
                          [committed EXCEPT ![req[q].sid] = @ + 1]
               /\ \/ /\ req' = [req EXCEPT ![q] = NewReq(req[q].op)]
                     /\ \E place \in {"failed", "done"} :
                          pc' = [pc EXCEPT ![q] = place]
                  \/ /\ req[q].op = "save" /\ req' = req
                     /\ pc' = [pc EXCEPT ![q] = "close"]
<1>1. /\ pc[q] = "commit" /\ UNCHANGED <<sessions, opened, counters, edited>>
  BY DEF CommitReplace, Store, Answer, store, history
<1>2. CASE row.version = req[q].base
  <2>1. row \in Rows /\ req[q] \in Req
    BY <1>1 DEF TypeOK, BaseInv, Working
  <2>2. /\ Members(req[q].symbols) \in Chosen(Symbols)
        /\ req[q].intervals # {}
    BY <1>1 DEF FilledInv, FilledOf, Members, Chosen
  <2>3. row' = [version |-> row.version + 1, enabled |-> req[q].enabled,
                provider |-> req[q].provider,
                symbols |-> Members(req[q].symbols),
                intervals |-> req[q].intervals]
    BY <1>2 DEF CommitReplace, Store
  <2>4. row' \in Rows /\ row' # NoRow
    BY <2>1, <2>2, <2>3, NoneAssumption DEF Rows, Req, Chosen
  <2>5. req[q].op = "save" => req[q].sid \in SessionIds
    BY <1>1 DEF TypeOK, SidInv, SidOf, Working
  <2>6. \/ req[q].op # "save" /\ committed' = committed
        \/ /\ req[q].op = "save" /\ req[q].sid \in SessionIds
           /\ committed' = [committed EXCEPT ![req[q].sid] = @ + 1]
    BY <1>2, <2>5 DEF CommitReplace, Store
  <2>7. \/ /\ req' = [req EXCEPT ![q] = NewReq(req[q].op)]
           /\ \E place \in {"failed", "done"} :
                pc' = [pc EXCEPT ![q] = place]
        \/ /\ req[q].op = "save" /\ req' = req
           /\ pc' = [pc EXCEPT ![q] = "close"]
    BY <1>2 DEF CommitReplace, Store, Answer, Goto, SetReq
  <2> QED BY <1>1, <1>2, <2>1, <2>3, <2>4, <2>6, <2>7
<1>3. CASE row.version # req[q].base
  BY <1>1, <1>3 DEF CommitReplace, Answer, Goto, SetReq, store, history
<1> QED BY <1>2, <1>3

(* Every step keeps the variables in their types.                          *)
LEMMA TypeStep ==
  ASSUME TypeOK, OpInv, SidInv, BaseInv, FilledInv, [Next]_vars
  PROVE  TypeOK'
<1> USE ConstantsAssumption, NoneAssumption
        DEF TypeOK, Working, Idle, Goto, SetReq, store, counters, history,
            PCs, OpInv, OpOf, SidInv, SidOf, BaseInv, FilledInv
<1>1. ASSUME NEW q \in Requests, NEW s \in SessionIds, Configure(q, s)
      PROVE  TypeOK'
  <2>1. [NewReq("configure") EXCEPT !.sid = s] \in Req
    BY NewReqType DEF Req, Ops
  <2> QED BY <1>1, <2>1 DEF Configure, Receive
<1>2. ASSUME NEW q \in Requests, NEW s \in SessionIds, Cancel(q, s)
      PROVE  TypeOK'
  BY <1>2, NewReqType DEF Cancel, Receive, Ops
<1>3. ASSUME NEW q \in Requests, NEW op \in Ops, SwitchAlerts(q, op)
      PROVE  TypeOK'
  BY <1>3, NewReqType DEF SwitchAlerts, Receive, Ops
<1>4. ASSUME NEW q \in Requests, NEW s \in SessionIds, NEW op \in Ops,
             GetSession(q, s, op)
      PROVE  TypeOK'
  <2>1. NewReq(op) \in Req
    BY NewReqType
  <2>2. CASE sessions[s] = NoSession
    BY <1>4, <2>1, <2>2 DEF GetSession, Receive
  <2>3. CASE sessions[s] # NoSession
    <3>1. sessions[s] \in Sessions
      BY <2>3
    <3>2. [op |-> op, sid |-> s, base |-> sessions[s].base,
           enabled |-> FALSE, provider |-> sessions[s].provider,
           symbols |-> sessions[s].symbols,
           intervals |-> sessions[s].intervals] \in Req
      BY <3>1 DEF Req, Sessions
    <3>3. req' \in [Requests -> Req]
      BY <1>4, <2>3, <3>2 DEF GetSession
    <3>4. pc' \in [Requests -> PCs]
      BY <1>4, <2>3 DEF GetSession
    <3> QED BY <1>4, <3>3, <3>4 DEF GetSession, Receive
  <2> QED BY <2>2, <2>3
<1>5. ASSUME NEW q \in Requests, Create(q) PROVE TypeOK'
  <2>1. row' \in Rows \cup {NoRow}
    BY <1>5, DefaultType DEF Create
  <2>2. CASE row' = NoRow
    <3>1. pc' \in [Requests -> PCs] /\ req' \in [Requests -> Req]
      BY <1>5, <2>2, AnswerType DEF Create
    <3> QED BY <1>5, <2>1, <3>1 DEF Create
  <2>3. CASE row' # NoRow
    <3>1. PICK op \in Opening : req' = [req EXCEPT ![q].op = op]
      BY <1>5, <2>3 DEF Create, Opening
    <3>2. [req[q] EXCEPT !.op = op] \in Req
      BY DEF Req, Ops, Opening
    <3>3. req' \in [Requests -> Req]
      BY <3>1, <3>2
    <3>4. pc' \in [Requests -> PCs]
      BY <1>5, <2>3 DEF Create
    <3> QED BY <1>5, <2>1, <3>3, <3>4 DEF Create
  <2> QED BY <2>2, <2>3
<1>6. ASSUME NEW q \in Requests, Open(q) PROVE TypeOK'
  <2>1. NewReq(req[q].op) \in Req
    BY NewReqType DEF Req
  <2> QED BY <1>6, <2>1, OpenFacts
<1>7. ASSUME NEW q \in Requests, ReadVersion(q) PROVE TypeOK'
  <2>1. NewReq(req[q].op) \in Req
    BY NewReqType DEF Req
  <2> QED BY <1>7, <2>1, VersionFacts
<1>8. ASSUME NEW q \in Requests, ReadRow(q) PROVE TypeOK'
  <2>1. row \in Rows /\ req[q] \in Req
    BY <1>8 DEF ReadRow
  <2> DEFINE b == IF req[q].op \in Opening THEN row.version ELSE req[q].base
             e == (req[q].op = "enable")
  <2>2. b \in Nat /\ e \in BOOLEAN /\ row.provider \in Providers
    BY <2>1 DEF Rows, Req
  <2>3. [req[q] EXCEPT !.base = b, !.enabled = e, !.provider = row.provider]
          \in Req
    BY <2>1, <2>2, SetFields
  <2> QED BY <1>8, <2>3 DEF ReadRow
<1>9. ASSUME NEW q \in Requests, ReadSymbols(q) PROVE TypeOK'
  <2>1. row \in Rows /\ req[q] \in Req
    BY <1>9 DEF ReadSymbols
  <2>2. [req[q] EXCEPT !.symbols = Once(row.symbols)] \in Req
    BY <2>1, OnceFacts DEF Rows, Req, Chosen
  <2> QED BY <1>9, <2>2 DEF ReadSymbols
<1>10. ASSUME NEW q \in Requests, ReadIntervals(q) PROVE TypeOK'
  <2>1. row \in Rows /\ req[q] \in Req
    BY <1>10 DEF ReadIntervals
  <2>2. [req[q] EXCEPT !.intervals = row.intervals] \in Req
    BY <2>1 DEF Rows, Req, Chosen
  <2> QED BY <1>10, <2>2 DEF ReadIntervals
<1>11. ASSUME NEW q \in Requests, UpdateSession(q) PROVE TypeOK'
  <2>1. NewReq(req[q].op) \in Req
    BY NewReqType DEF Req
  <2> QED BY <1>11, <2>1, UpdateFacts
<1>12. ASSUME NEW q \in Requests, CheckSession(q) PROVE TypeOK'
  <2>1. NewReq(req[q].op) \in Req
    BY NewReqType DEF Req
  <2> QED BY <1>12, <2>1, CheckFacts
<1>13. ASSUME NEW q \in Requests, BeginReplace(q) PROVE TypeOK'
  <2>1. pc' \in [Requests -> PCs] /\ req' \in [Requests -> Req]
    BY <1>13, AnswerType DEF BeginReplace
  <2> QED BY <1>13, <2>1 DEF BeginReplace
<1>14. ASSUME NEW q \in Requests, CommitReplace(q) PROVE TypeOK'
  <2>1. NewReq(req[q].op) \in Req
    BY NewReqType DEF Req
  <2> QED BY <1>14, <2>1, CommitFacts
<1>15. ASSUME NEW q \in Requests, CloseSession(q) PROVE TypeOK'
  <2>1. pc' \in [Requests -> PCs] /\ req' \in [Requests -> Req]
    BY <1>15, AnswerType DEF CloseSession
  <2> QED BY <1>15, <2>1 DEF CloseSession
<1>16. ASSUME NEW q \in Requests, StoreFails(q) PROVE TypeOK'
  BY <1>16, AnswerType DEF StoreFails
<1>17. ASSUME NEW s \in SessionIds, Expire(s) PROVE TypeOK'
  BY <1>17 DEF Expire
<1>18. CASE Crash
  <2>1. \A q \in Requests : NewReq(req[q].op) \in Req
    BY NewReqType DEF Req
  <2> QED BY <1>18, <2>1 DEF Crash
<1>19. CASE UNCHANGED vars
  BY <1>19 DEF vars
<1> QED
  BY <1>1, <1>2, <1>3, <1>4, <1>5, <1>6, <1>7, <1>8, <1>9, <1>10, <1>11,
     <1>12, <1>13, <1>14, <1>15, <1>16, <1>17, <1>18, <1>19
     DEF Next, AllAnswered

-----------------------------------------------------------------------------
(* The parts of the invariant                                              *)

(* Requests go on where their command leads them.                          *)
LEMMA OpStep ==
  ASSUME TypeOK, OpInv, SidInv, BaseInv, FilledInv, [Next]_vars
  PROVE  OpInv'
<1> USE ConstantsAssumption, NoneAssumption
        DEF TypeOK, NewReq, Working, Idle, Goto, SetReq, store, counters,
            history, Req, Opening, OpInv, OpOf
<1>1. ASSUME NEW q \in Requests, NEW s \in SessionIds, Configure(q, s)
      PROVE  OpInv'
  BY <1>1 DEF Configure, Receive
<1>2. ASSUME NEW q \in Requests, NEW s \in SessionIds, Cancel(q, s)
      PROVE  OpInv'
  BY <1>2 DEF Cancel, Receive
<1>3. ASSUME NEW q \in Requests, NEW op \in Ops, SwitchAlerts(q, op)
      PROVE  OpInv'
  BY <1>3 DEF SwitchAlerts, Receive
<1>4. ASSUME NEW q \in Requests, NEW s \in SessionIds, NEW op \in Ops,
             GetSession(q, s, op)
      PROVE  OpInv'
  BY <1>4 DEF GetSession, Receive
<1>5. ASSUME NEW q \in Requests, Create(q) PROVE OpInv'
  BY <1>5 DEF Create, Answer, DefaultRow
<1>6. ASSUME NEW q \in Requests, Open(q) PROVE OpInv'
  BY <1>6, OpenFacts
<1>7. ASSUME NEW q \in Requests, ReadVersion(q) PROVE OpInv'
  BY <1>7, VersionFacts
<1>8. ASSUME NEW q \in Requests, ReadRow(q) PROVE OpInv'
  BY <1>8 DEF ReadRow
<1>9. ASSUME NEW q \in Requests, ReadSymbols(q) PROVE OpInv'
  BY <1>9 DEF ReadSymbols
<1>10. ASSUME NEW q \in Requests, ReadIntervals(q) PROVE OpInv'
  BY <1>10 DEF ReadIntervals
<1>11. ASSUME NEW q \in Requests, UpdateSession(q) PROVE OpInv'
  BY <1>11, UpdateFacts
<1>12. ASSUME NEW q \in Requests, CheckSession(q) PROVE OpInv'
  BY <1>12, CheckFacts
<1>13. ASSUME NEW q \in Requests, BeginReplace(q) PROVE OpInv'
  BY <1>13 DEF BeginReplace, Answer
<1>14. ASSUME NEW q \in Requests, CommitReplace(q) PROVE OpInv'
  BY <1>14, CommitFacts
<1>15. ASSUME NEW q \in Requests, CloseSession(q) PROVE OpInv'
  BY <1>15 DEF CloseSession, Answer
<1>16. ASSUME NEW q \in Requests, StoreFails(q) PROVE OpInv'
  BY <1>16 DEF StoreFails, Answer
<1>17. ASSUME NEW s \in SessionIds, Expire(s) PROVE OpInv'
  BY <1>17 DEF Expire
<1>18. CASE Crash
  BY <1>18 DEF Crash
<1>19. CASE UNCHANGED vars
  BY <1>19 DEF vars
<1> QED
  BY <1>1, <1>2, <1>3, <1>4, <1>5, <1>6, <1>7, <1>8, <1>9, <1>10, <1>11,
     <1>12, <1>13, <1>14, <1>15, <1>16, <1>17, <1>18, <1>19
     DEF Next, AllAnswered

(* Ids are drawn once, and only opened sessions have buttons.              *)
LEMMA SidStep ==
  ASSUME TypeOK, OpInv, SidInv, BaseInv, FilledInv, [Next]_vars
  PROVE  SidInv'
<1> USE ConstantsAssumption, NoneAssumption
        DEF TypeOK, NewReq, Working, Idle, Goto, SetReq, store, counters,
            history, Req, Opening, OpInv, OpOf, SidInv, SidOf
<1>1. ASSUME NEW q \in Requests, NEW s \in SessionIds, Configure(q, s)
      PROVE  SidInv'
  BY <1>1 DEF Configure, Receive
<1>2. ASSUME NEW q \in Requests, NEW s \in SessionIds, Cancel(q, s)
      PROVE  SidInv'
  BY <1>2 DEF Cancel, Receive
<1>3. ASSUME NEW q \in Requests, NEW op \in Ops, SwitchAlerts(q, op)
      PROVE  SidInv'
  BY <1>3 DEF SwitchAlerts, Receive
<1>4. ASSUME NEW q \in Requests, NEW s \in SessionIds, NEW op \in Ops,
             GetSession(q, s, op)
      PROVE  SidInv'
  BY <1>4 DEF GetSession, Receive
<1>5. ASSUME NEW q \in Requests, Create(q) PROVE SidInv'
  <2>1. /\ UNCHANGED <<sessions, opened, committed>>
        /\ \A p \in Requests \ {q} : pc'[p] = pc[p] /\ req'[p] = req[p]
    BY <1>5 DEF Create, Answer
  <2>2. /\ pc[q] = "create" /\ req[q].op = "configure"
        /\ req'[q].sid \in {NoSession, req[q].sid}
        /\ pc'[q] = "refused" \/ (pc'[q] = "row" /\ req'[q].op \in Opening
                                   /\ req'[q].sid = req[q].sid)
    BY <1>5 DEF Create, Answer
  <2>3. SidOf(q)'
    BY <2>1, <2>2
  <2>4. ASSUME NEW p \in Requests \ {q} PROVE SidOf(p)'
    BY <2>1, <2>2, <2>4
  <2> QED BY <2>1, <2>3, <2>4
<1>6. ASSUME NEW q \in Requests, Open(q) PROVE SidInv'
  BY <1>6, OpenFacts
<1>7. ASSUME NEW q \in Requests, ReadVersion(q) PROVE SidInv'
  <2>1. /\ UNCHANGED <<sessions, opened, committed>>
        /\ \A p \in Requests \ {q} : pc'[p] = pc[p] /\ req'[p] = req[p]
        /\ pc[q] = "version" /\ req'[q].sid \in {NoSession, req[q].sid}
        /\ pc'[q] = "refused" \/ req'[q].op = req[q].op
    BY <1>7, VersionFacts
  <2>2. ASSUME NEW p \in Requests PROVE SidOf(p)'
    BY <2>1
  <2> QED BY <2>1, <2>2
<1>8. ASSUME NEW q \in Requests, ReadRow(q) PROVE SidInv'
  BY <1>8 DEF ReadRow
<1>9. ASSUME NEW q \in Requests, ReadSymbols(q) PROVE SidInv'
  BY <1>9 DEF ReadSymbols
<1>10. ASSUME NEW q \in Requests, ReadIntervals(q) PROVE SidInv'
  BY <1>10 DEF ReadIntervals
<1>11. ASSUME NEW q \in Requests, UpdateSession(q) PROVE SidInv'
  BY <1>11, UpdateFacts
<1>12. ASSUME NEW q \in Requests, CheckSession(q) PROVE SidInv'
  <2>1. /\ pc[q] = "check" /\ req[q].op = "save"
        /\ UNCHANGED <<sessions, opened, committed>>
    BY <1>12, CheckFacts
  <2>2. CASE \E r \in Req : /\ pc' = [pc EXCEPT ![q] = "begin"]
                           /\ req' = [req EXCEPT ![q] = r]
                           /\ r.op = req[q].op /\ r.sid = req[q].sid
    BY <2>1, <2>2
  <2>3. CASE /\ pc' = [pc EXCEPT ![q] = "refused"]
             /\ req' = [req EXCEPT ![q] = NewReq(req[q].op)]
    BY <2>1, <2>3
  <2> QED BY <1>12, <2>2, <2>3, CheckFacts
<1>13. ASSUME NEW q \in Requests, BeginReplace(q) PROVE SidInv'
  BY <1>13 DEF BeginReplace, Answer
<1>14. ASSUME NEW q \in Requests, CommitReplace(q) PROVE SidInv'
  <2>1. /\ UNCHANGED <<sessions, opened>>
        /\ \A p \in Requests \ {q} : pc'[p] = pc[p] /\ req'[p] = req[p]
        /\ req'[q].sid \in {NoSession, req[q].sid}
        /\ \/ pc'[q] \in {"refused", "failed", "done"}
           \/ pc'[q] = "close" /\ req[q].op = "save" /\ req'[q] = req[q]
    BY <1>14, CommitFacts
  <2>2. pc[q] = "commit"
    BY <1>14, CommitFacts
  <2>3. \/ committed' = committed
        \/ /\ req[q].op = "save" /\ req[q].sid \in SessionIds
           /\ committed' = [committed EXCEPT ![req[q].sid] = @ + 1]
    BY <1>14, CommitFacts
  <2>4. ASSUME NEW p \in Requests PROVE SidOf(p)'
    BY <2>1, <2>2
  <2>5. \A s \in SessionIds :
          sessions'[s] # NoSession \/ committed'[s] > 0 => s \in opened'
    BY <2>1, <2>2, <2>3
  <2> QED BY <2>4, <2>5
<1>15. ASSUME NEW q \in Requests, CloseSession(q) PROVE SidInv'
  BY <1>15 DEF CloseSession, Answer
<1>16. ASSUME NEW q \in Requests, StoreFails(q) PROVE SidInv'
  BY <1>16 DEF StoreFails, Answer
<1>17. ASSUME NEW s \in SessionIds, Expire(s) PROVE SidInv'
  BY <1>17 DEF Expire
<1>18. CASE Crash
  BY <1>18 DEF Crash
<1>19. CASE UNCHANGED vars
  BY <1>19 DEF vars
<1> QED
  BY <1>1, <1>2, <1>3, <1>4, <1>5, <1>6, <1>7, <1>8, <1>9, <1>10, <1>11,
     <1>12, <1>13, <1>14, <1>15, <1>16, <1>17, <1>18, <1>19
     DEF Next, AllAnswered

(* Versions only grow.                                                     *)
LEMMA BaseStep ==
  ASSUME TypeOK, OpInv, SidInv, BaseInv, FilledInv, [Next]_vars
  PROVE  BaseInv'
<1> USE ConstantsAssumption, NoneAssumption
        DEF TypeOK, NewReq, Working, Idle, Goto, SetReq, store, counters,
            history, Rows, Req, Sessions, Opening, OpInv, OpOf, SidInv, SidOf,
            BaseInv
<1>1. ASSUME NEW q \in Requests, NEW s \in SessionIds, Configure(q, s)
      PROVE  BaseInv'
  BY <1>1 DEF Configure, Receive
<1>2. ASSUME NEW q \in Requests, NEW s \in SessionIds, Cancel(q, s)
      PROVE  BaseInv'
  BY <1>2 DEF Cancel, Receive
<1>3. ASSUME NEW q \in Requests, NEW op \in Ops, SwitchAlerts(q, op)
      PROVE  BaseInv'
  BY <1>3 DEF SwitchAlerts, Receive
<1>4. ASSUME NEW q \in Requests, NEW s \in SessionIds, NEW op \in Ops,
             GetSession(q, s, op)
      PROVE  BaseInv'
  BY <1>4 DEF GetSession, Receive
<1>5. ASSUME NEW q \in Requests, Create(q) PROVE BaseInv'
  BY <1>5 DEF Create, Answer, DefaultRow
<1>6. ASSUME NEW q \in Requests, Open(q) PROVE BaseInv'
  BY <1>6, OpenFacts
<1>7. ASSUME NEW q \in Requests, ReadVersion(q) PROVE BaseInv'
  <2>1. row # NoRow => row.version \in Nat
    BY DEF Rows
  <2>2. UNCHANGED <<row, sessions>>
    BY <1>7, VersionFacts
  <2>3. \A p \in Requests \ {q} : req'[p] = req[p] /\ pc'[p] = pc[p]
    BY <1>7, VersionFacts
  <2>4. \/ row # NoRow /\ pc'[q] = "row" /\ req'[q].base = row.version
        \/ pc'[q] = "refused" /\ req'[q].base = 0
    BY <1>7, VersionFacts
  <2> QED BY <2>1, <2>2, <2>3, <2>4
<1>8. ASSUME NEW q \in Requests, ReadRow(q) PROVE BaseInv'
  BY <1>8 DEF ReadRow
<1>9. ASSUME NEW q \in Requests, ReadSymbols(q) PROVE BaseInv'
  BY <1>9 DEF ReadSymbols
<1>10. ASSUME NEW q \in Requests, ReadIntervals(q) PROVE BaseInv'
  BY <1>10 DEF ReadIntervals
<1>11. ASSUME NEW q \in Requests, UpdateSession(q) PROVE BaseInv'
  BY <1>11, UpdateFacts
<1>12. ASSUME NEW q \in Requests, CheckSession(q) PROVE BaseInv'
  BY <1>12, CheckFacts
<1>13. ASSUME NEW q \in Requests, BeginReplace(q) PROVE BaseInv'
  BY <1>13 DEF BeginReplace, Answer
<1>14. ASSUME NEW q \in Requests, CommitReplace(q) PROVE BaseInv'
  BY <1>14, CommitFacts
<1>15. ASSUME NEW q \in Requests, CloseSession(q) PROVE BaseInv'
  BY <1>15 DEF CloseSession, Answer
<1>16. ASSUME NEW q \in Requests, StoreFails(q) PROVE BaseInv'
  BY <1>16 DEF StoreFails, Answer
<1>17. ASSUME NEW s \in SessionIds, Expire(s) PROVE BaseInv'
  BY <1>17 DEF Expire
<1>18. CASE Crash
  BY <1>18 DEF Crash
<1>19. CASE UNCHANGED vars
  BY <1>19 DEF vars
<1> QED
  BY <1>1, <1>2, <1>3, <1>4, <1>5, <1>6, <1>7, <1>8, <1>9, <1>10, <1>11,
     <1>12, <1>13, <1>14, <1>15, <1>16, <1>17, <1>18, <1>19
     DEF Next, AllAnswered

(* A request that does not store is looked at when it moves.               *)
LEMMA FilledElsewhere ==
  ASSUME FilledInv, NEW q \in Requests,
         \A p \in Requests \ {q} : pc'[p] = pc[p] /\ req'[p] = req[p],
         FilledOf(q)'
  PROVE  FilledInv'
<1>1. ASSUME NEW p \in Requests \ {q} PROVE FilledOf(p)'
  BY <1>1 DEF FilledInv, FilledOf
<1> QED BY <1>1 DEF FilledInv

(* What is read is not empty, and what is saved was looked at.             *)
LEMMA FilledStep ==
  ASSUME TypeOK, OpInv, SidInv, BaseInv, FilledInv, [Next]_vars
  PROVE  FilledInv'
<1> USE DEF TypeOK, Working, Idle, Goto, SetReq
<1>1. ASSUME NEW q \in Requests, NEW s \in SessionIds,
             Configure(q, s) \/ Cancel(q, s)
      PROVE  FilledInv'
  BY <1>1, FilledElsewhere DEF Configure, Cancel, FilledOf
<1>2. ASSUME NEW q \in Requests, NEW op \in Ops, SwitchAlerts(q, op)
      PROVE  FilledInv'
  BY <1>2, FilledElsewhere DEF SwitchAlerts, FilledOf
<1>3. ASSUME NEW q \in Requests, NEW s \in SessionIds, NEW op \in Ops,
             GetSession(q, s, op)
      PROVE  FilledInv'
  <2>1. pc'[q] \in {"refused", "check", "edit"}
    BY <1>3 DEF GetSession
  <2>2. \A p \in Requests \ {q} : pc'[p] = pc[p] /\ req'[p] = req[p]
    BY <1>3 DEF GetSession
  <2> QED BY <2>1, <2>2, FilledElsewhere DEF FilledOf
<1>4. ASSUME NEW q \in Requests, Create(q) PROVE FilledInv'
  <2>1. pc'[q] \in {"refused", "row"}
    BY <1>4 DEF Create, Answer
  <2>2. \A p \in Requests \ {q} : pc'[p] = pc[p] /\ req'[p] = req[p]
    BY <1>4 DEF Create, Answer
  <2> QED BY <2>1, <2>2, FilledElsewhere DEF FilledOf
<1>5. ASSUME NEW q \in Requests, ReadRow(q) PROVE FilledInv'
  <2>1. pc'[q] \in {"symbols"}
    BY <1>5 DEF ReadRow
  <2>2. \A p \in Requests \ {q} : pc'[p] = pc[p] /\ req'[p] = req[p]
    BY <1>5 DEF ReadRow
  <2> QED BY <2>1, <2>2, FilledElsewhere DEF FilledOf
<1>6. ASSUME NEW q \in Requests, CloseSession(q) PROVE FilledInv'
  <2>1. pc'[q] \in {"refused", "done"}
    BY <1>6 DEF CloseSession, Answer
  <2>2. \A p \in Requests \ {q} : pc'[p] = pc[p] /\ req'[p] = req[p]
    BY <1>6 DEF CloseSession, Answer
  <2> QED BY <2>1, <2>2, FilledElsewhere DEF FilledOf
<1>7. ASSUME NEW q \in Requests, StoreFails(q) PROVE FilledInv'
  <2>1. pc'[q] \in {"failed"}
    BY <1>7 DEF StoreFails, Answer
  <2>2. \A p \in Requests \ {q} : pc'[p] = pc[p] /\ req'[p] = req[p]
    BY <1>7 DEF StoreFails, Answer
  <2> QED BY <2>1, <2>2, FilledElsewhere DEF FilledOf
<1>8. ASSUME NEW q \in Requests, Open(q) PROVE FilledInv'
  <2>1. pc'[q] \in {"done"}
    BY <1>8, OpenFacts
  <2>2. \A p \in Requests \ {q} : pc'[p] = pc[p] /\ req'[p] = req[p]
    BY <1>8, OpenFacts
  <2> QED BY <2>1, <2>2, FilledElsewhere DEF FilledOf
<1>9. ASSUME NEW q \in Requests, ReadVersion(q) PROVE FilledInv'
  <2>1. pc'[q] \in {"refused", "row"}
    BY <1>9, VersionFacts
  <2>2. \A p \in Requests \ {q} : pc'[p] = pc[p] /\ req'[p] = req[p]
    BY <1>9, VersionFacts
  <2> QED BY <2>1, <2>2, FilledElsewhere DEF FilledOf
<1>10. ASSUME NEW q \in Requests, UpdateSession(q) PROVE FilledInv'
  <2>1. pc'[q] \in {"refused", "done"}
    BY <1>10, UpdateFacts
  <2>2. \A p \in Requests \ {q} : pc'[p] = pc[p] /\ req'[p] = req[p]
    BY <1>10, UpdateFacts
  <2> QED BY <2>1, <2>2, FilledElsewhere DEF FilledOf
<1>11. ASSUME NEW q \in Requests, ReadSymbols(q) PROVE FilledInv'
  <2>1. row \in Rows /\ req[q] \in Req
    BY <1>11 DEF ReadSymbols, BaseInv
  <2>2. /\ Members(Once(row.symbols)) # {}
        /\ Distinct(Once(row.symbols))
    BY <2>1, OnceFacts DEF Rows, Chosen
  <2>3. /\ pc'[q] = "intervals" /\ req'[q].symbols = Once(row.symbols)
        /\ \A p \in Requests \ {q} : pc'[p] = pc[p] /\ req'[p] = req[p]
    BY <1>11, <2>1 DEF ReadSymbols, Req
  <2> QED BY <2>2, <2>3, FilledElsewhere DEF FilledOf
<1>12. ASSUME NEW q \in Requests, ReadIntervals(q) PROVE FilledInv'
  <2>1. row \in Rows /\ req[q] \in Req /\ FilledOf(q)
    BY <1>12 DEF ReadIntervals, BaseInv, FilledInv
  <2>2. /\ pc[q] = "intervals"
        /\ req'[q].symbols = req[q].symbols
        /\ req'[q].intervals = row.intervals
        /\ \A p \in Requests \ {q} : pc'[p] = pc[p] /\ req'[p] = req[p]
    BY <1>12, <2>1 DEF ReadIntervals, Req
  <2>3. row.intervals # {}
    BY <2>1 DEF Rows, Chosen
  <2> QED BY <2>1, <2>2, <2>3, FilledElsewhere DEF FilledOf
<1>13. ASSUME NEW q \in Requests, CheckSession(q) PROVE FilledInv'
  <2>1. \A p \in Requests \ {q} : pc'[p] = pc[p] /\ req'[p] = req[p]
    BY <1>13, CheckFacts
  <2>2. \/ pc'[q] = "refused"
        \/ /\ pc'[q] = "begin" /\ req'[q].intervals # {}
           /\ Members(req'[q].symbols) # {} /\ Distinct(req'[q].symbols)
    BY <1>13, CheckFacts
  <2> QED BY <2>1, <2>2, FilledElsewhere DEF FilledOf
<1>14. ASSUME NEW q \in Requests, BeginReplace(q) PROVE FilledInv'
  <2>1. \A p \in Requests \ {q} : pc'[p] = pc[p] /\ req'[p] = req[p]
    BY <1>14 DEF BeginReplace, Answer
  <2>2. \/ pc'[q] = "refused"
        \/ pc[q] = "begin" /\ pc'[q] = "commit" /\ req'[q] = req[q]
    BY <1>14 DEF BeginReplace, Answer
  <2> QED BY <2>1, <2>2, FilledElsewhere DEF FilledOf, FilledInv
<1>15. ASSUME NEW q \in Requests, CommitReplace(q) PROVE FilledInv'
  <2>1. \A p \in Requests \ {q} : pc'[p] = pc[p] /\ req'[p] = req[p]
    BY <1>15, CommitFacts
  <2>2. pc'[q] \in {"refused", "failed", "done", "close"}
    BY <1>15, CommitFacts
  <2> QED BY <2>1, <2>2, FilledElsewhere DEF FilledOf
<1>16. ASSUME NEW s \in SessionIds, Expire(s) PROVE FilledInv'
  BY <1>16 DEF Expire, FilledInv, FilledOf
<1>17. CASE Crash
  BY <1>17 DEF Crash, FilledInv, FilledOf
<1>18. CASE UNCHANGED vars
  BY <1>18 DEF vars, FilledInv, FilledOf
<1> QED
  BY <1>1, <1>2, <1>3, <1>4, <1>5, <1>6, <1>7, <1>8, <1>9,
     <1>10, <1>11, <1>12, <1>13, <1>14, <1>15, <1>16, <1>17, <1>18
     DEF Next, AllAnswered

(* As long as a version is current, nothing that was read is out of date.  *)
LEMMA ReadStep ==
  ASSUME TypeOK, OpInv, SidInv, BaseInv, FilledInv, ReadInv, [Next]_vars
  PROVE  ReadInv'
<1> USE ConstantsAssumption, NoneAssumption
        DEF TypeOK, NewReq, Working, Idle, Goto, SetReq, store, counters,
            history, Rows, Req, Opening, IsCurrent, OpInv, OpOf, BaseInv,
            ReadInv, ReadOf
<1>1. ASSUME NEW q \in Requests, NEW s \in SessionIds, Configure(q, s)
      PROVE  ReadInv'
  BY <1>1 DEF Configure, Receive
<1>2. ASSUME NEW q \in Requests, NEW s \in SessionIds, Cancel(q, s)
      PROVE  ReadInv'
  BY <1>2 DEF Cancel, Receive
<1>3. ASSUME NEW q \in Requests, NEW op \in Ops, SwitchAlerts(q, op)
      PROVE  ReadInv'
  BY <1>3 DEF SwitchAlerts, Receive
<1>4. ASSUME NEW q \in Requests, NEW s \in SessionIds, NEW op \in Ops,
             GetSession(q, s, op)
      PROVE  ReadInv'
  BY <1>4 DEF GetSession, Receive
<1>5. ASSUME NEW q \in Requests, Create(q) PROVE ReadInv'
  <2>1. CASE row = NoRow
    BY <1>5, <2>1 DEF Create, Answer
  <2>2. CASE row # NoRow
    BY <1>5, <2>2 DEF Create, Answer
  <2> QED BY <2>1, <2>2
<1>6. ASSUME NEW q \in Requests, Open(q) PROVE ReadInv'
  BY <1>6, OpenFacts
<1>7. ASSUME NEW q \in Requests, ReadVersion(q) PROVE ReadInv'
  BY <1>7, VersionFacts
<1>8. ASSUME NEW q \in Requests, ReadRow(q) PROVE ReadInv'
  BY <1>8 DEF ReadRow
<1>9. ASSUME NEW q \in Requests, ReadSymbols(q) PROVE ReadInv'
  BY <1>9 DEF ReadSymbols
<1>10. ASSUME NEW q \in Requests, ReadIntervals(q) PROVE ReadInv'
  BY <1>10 DEF ReadIntervals
<1>11. ASSUME NEW q \in Requests, UpdateSession(q) PROVE ReadInv'
  BY <1>11, UpdateFacts
<1>12. ASSUME NEW q \in Requests, CheckSession(q) PROVE ReadInv'
  BY <1>12, CheckFacts
<1>13. ASSUME NEW q \in Requests, BeginReplace(q) PROVE ReadInv'
  BY <1>13 DEF BeginReplace, Answer
<1>14. ASSUME NEW q \in Requests, CommitReplace(q) PROVE ReadInv'
  BY <1>14, CommitFacts
<1>15. ASSUME NEW q \in Requests, CloseSession(q) PROVE ReadInv'
  BY <1>15 DEF CloseSession, Answer
<1>16. ASSUME NEW q \in Requests, StoreFails(q) PROVE ReadInv'
  BY <1>16 DEF StoreFails, Answer
<1>17. ASSUME NEW s \in SessionIds, Expire(s) PROVE ReadInv'
  BY <1>17 DEF Expire
<1>18. CASE Crash
  BY <1>18 DEF Crash
<1>19. CASE UNCHANGED vars
  BY <1>19 DEF vars
<1> QED
  BY <1>1, <1>2, <1>3, <1>4, <1>5, <1>6, <1>7, <1>8, <1>9, <1>10, <1>11,
     <1>12, <1>13, <1>14, <1>15, <1>16, <1>17, <1>18, <1>19
     DEF Next, AllAnswered

(* A session nobody edited is a copy of the version it is based on.        *)
LEMMA CopyStep ==
  ASSUME TypeOK, OpInv, SidInv, BaseInv, FilledInv, ReadInv, CopyInv,
         [Next]_vars
  PROVE  CopyInv'
<1> USE ConstantsAssumption, NoneAssumption
        DEF TypeOK, NewReq, Working, Idle, Goto, SetReq, store, counters,
            history, Rows, Req, Sessions, IsCurrent, OpInv, OpOf, SidInv,
            SidOf, BaseInv, ReadInv, ReadOf, Untouched, CopyInv
<1>1. ASSUME NEW q \in Requests, NEW s \in SessionIds, Configure(q, s)
      PROVE  CopyInv'
  BY <1>1 DEF Configure, Receive
<1>2. ASSUME NEW q \in Requests, NEW s \in SessionIds, Cancel(q, s)
      PROVE  CopyInv'
  BY <1>2 DEF Cancel, Receive
<1>3. ASSUME NEW q \in Requests, NEW op \in Ops, SwitchAlerts(q, op)
      PROVE  CopyInv'
  BY <1>3 DEF SwitchAlerts, Receive
<1>4. ASSUME NEW q \in Requests, NEW s \in SessionIds, NEW op \in Ops,
             GetSession(q, s, op)
      PROVE  CopyInv'
  BY <1>4 DEF GetSession, Receive
<1>5. ASSUME NEW q \in Requests, Create(q) PROVE CopyInv'
  BY <1>5 DEF Create, Answer, DefaultRow
<1>6. ASSUME NEW q \in Requests, Open(q) PROVE CopyInv'
  <2>1. PICK d \in Sessions :
          /\ sessions' = [sessions EXCEPT ![req[q].sid] = d]
          /\ d.base = req[q].base /\ d.intervals = req[q].intervals
          /\ EffectiveProvider(d.provider)
               = EffectiveProvider(req[q].provider)
          /\ d.symbols \in
               {req[q].symbols,
                Renamed(EffectiveProvider(req[q].provider),
                        Members(req[q].symbols))}
    BY <1>6, OpenFacts
  <2>2. /\ UNCHANGED <<row, edited>>
        /\ pc[q] = "open" /\ pc'[q] = "done" /\ req[q].op \in Opening
        /\ \A p \in Requests \ {q} : pc'[p] = pc[p] /\ req'[p] = req[p]
        /\ req[q].sid \in SessionIds
    BY <1>6, OpenFacts
  <2>3. ASSUME IsCurrent(req[q].base) PROVE Untouched(d)
    <3>1. /\ req[q].provider = row.provider
          /\ req[q].symbols = Once(row.symbols)
          /\ req[q].intervals = row.intervals
      BY <2>2, <2>3 DEF Opening
    <3>2. row.symbols \in SUBSET Symbols
      BY <2>3 DEF Chosen
    <3>3. Members(Once(row.symbols)) = row.symbols
      BY <3>2, OnceFacts
    <3> QED BY <2>1, <3>1, <3>3
  <2>4. \A s \in SessionIds \ edited' :
          sessions'[s] # NoSession /\ IsCurrent(sessions'[s].base) =>
            Untouched(sessions'[s])
    BY <2>1, <2>2, <2>3
  <2>5. \A p \in Requests :
          /\ pc'[p] \in {"check", "begin", "commit"} /\ req'[p].op = "save"
          /\ req'[p].sid \notin edited' /\ IsCurrent(req'[p].base)
          => /\ Untouched(req'[p])
             /\ pc'[p] # "check" => Served(req'[p])
    BY <2>2
  <2> QED BY <2>1, <2>2, <2>4, <2>5
<1>7. ASSUME NEW q \in Requests, ReadVersion(q) PROVE CopyInv'
  <2>1. /\ UNCHANGED <<row, sessions, edited>>
        /\ pc'[q] \in {"refused", "row"}
        /\ \A p \in Requests \ {q} : pc'[p] = pc[p] /\ req'[p] = req[p]
    BY <1>7, VersionFacts
  <2> QED BY <2>1
<1>8. ASSUME NEW q \in Requests, ReadRow(q) PROVE CopyInv'
  BY <1>8 DEF ReadRow
<1>9. ASSUME NEW q \in Requests, ReadSymbols(q) PROVE CopyInv'
  BY <1>9 DEF ReadSymbols
<1>10. ASSUME NEW q \in Requests, ReadIntervals(q) PROVE CopyInv'
  BY <1>10 DEF ReadIntervals
<1>11. ASSUME NEW q \in Requests, UpdateSession(q) PROVE CopyInv'
  <2>1. CASE UNCHANGED <<sessions, edited>>
    BY <1>11, <2>1, UpdateFacts
  <2>2. CASE ~UNCHANGED <<sessions, edited>>
    <3>1. req[q].sid \in edited' /\ edited \subseteq edited' /\ row' = row
      BY <1>11, <2>2, UpdateFacts
    <3>2. \A s \in SessionIds \ edited' : sessions'[s] = sessions[s]
      BY <1>11, <2>2, <3>1, UpdateFacts
    <3>3. \A p \in Requests :
            pc'[p] \in {"check", "begin", "commit"} =>
              pc'[p] = pc[p] /\ req'[p] = req[p]
      BY <1>11, <2>2, UpdateFacts
    <3> QED BY <3>1, <3>2, <3>3
  <2> QED BY <2>1, <2>2
<1>12. ASSUME NEW q \in Requests, CheckSession(q) PROVE CopyInv'
  <2>1. /\ UNCHANGED <<row, sessions, edited>>
        /\ pc[q] = "check" /\ pc'[q] \in {"begin", "refused"}
        /\ \A p \in Requests \ {q} : pc'[p] = pc[p] /\ req'[p] = req[p]
    BY <1>12, CheckFacts
  <2>2. ASSUME pc'[q] = "begin"
        PROVE  /\ req'[q].op = req[q].op /\ req'[q].sid = req[q].sid
               /\ req'[q].base = req[q].base
               /\ req'[q].provider = EffectiveProvider(req[q].provider)
               /\ req'[q].symbols = req[q].symbols
               /\ req'[q].intervals = req[q].intervals
               /\ Served(req'[q])
    BY <1>12, <2>2, CheckFacts
  <2>3. /\ EffectiveProvider(req[q].provider) \in EnabledProviders
        /\ EffectiveProvider(EffectiveProvider(req[q].provider))
             = EffectiveProvider(req[q].provider)
    BY EffectiveType
  <2>4. ASSUME NEW p \in Requests,
               pc'[p] \in {"check", "begin", "commit"}, req'[p].op = "save",
               req'[p].sid \notin edited', IsCurrent(req'[p].base)
        PROVE  /\ Untouched(req'[p])
               /\ pc'[p] # "check" => Served(req'[p])
    <3>1. CASE p # q
      BY <2>1, <2>4, <3>1
    <3>2. CASE p = q
      <4>1. Untouched(req[q])
        BY <2>1, <2>2, <2>4, <3>2
      <4>2. pc'[q] = "begin"
        BY <2>1, <2>4, <3>2
      <4>3. /\ EffectiveProvider(req'[q].provider)
                = EffectiveProvider(req[q].provider)
            /\ Served(req'[q])
        BY <2>2, <2>3, <4>2
      <4>4. Untouched(req'[q])
        BY <2>2, <4>1, <4>2, <4>3
      <4> QED BY <3>2, <4>3, <4>4
    <3> QED BY <3>1, <3>2
  <2>5. \A s \in SessionIds \ edited' :
          sessions'[s] # NoSession /\ IsCurrent(sessions'[s].base) =>
            Untouched(sessions'[s])
    BY <2>1
  <2> QED BY <2>1, <2>4, <2>5
<1>13. ASSUME NEW q \in Requests, BeginReplace(q) PROVE CopyInv'
  BY <1>13 DEF BeginReplace, Answer
<1>14. ASSUME NEW q \in Requests, CommitReplace(q) PROVE CopyInv'
  BY <1>14, CommitFacts
<1>15. ASSUME NEW q \in Requests, CloseSession(q) PROVE CopyInv'
  BY <1>15 DEF CloseSession, Answer
<1>16. ASSUME NEW q \in Requests, StoreFails(q) PROVE CopyInv'
  BY <1>16 DEF StoreFails, Answer
<1>17. ASSUME NEW s \in SessionIds, Expire(s) PROVE CopyInv'
  BY <1>17 DEF Expire
<1>18. CASE Crash
  BY <1>18 DEF Crash
<1>19. CASE UNCHANGED vars
  BY <1>19 DEF vars
<1> QED
  BY <1>1, <1>2, <1>3, <1>4, <1>5, <1>6, <1>7, <1>8, <1>9, <1>10, <1>11,
     <1>12, <1>13, <1>14, <1>15, <1>16, <1>17, <1>18, <1>19
     DEF Next, AllAnswered

(* A commit makes every copy of its session outdated.                      *)
LEMMA SpentStep ==
  ASSUME TypeOK, OpInv, SidInv, BaseInv, FilledInv, SpentInv, [Next]_vars
  PROVE  SpentInv'
<1> USE ConstantsAssumption, NoneAssumption
        DEF TypeOK, NewReq, Working, Idle, Goto, SetReq, store, counters,
            history, Rows, Req, Sessions, OpInv, OpOf, SidInv, SidOf, BaseInv,
            SpentInv
<1>1. ASSUME NEW q \in Requests, NEW s \in SessionIds, Configure(q, s)
      PROVE  SpentInv'
  BY <1>1 DEF Configure, Receive
<1>2. ASSUME NEW q \in Requests, NEW s \in SessionIds, Cancel(q, s)
      PROVE  SpentInv'
  BY <1>2 DEF Cancel, Receive
<1>3. ASSUME NEW q \in Requests, NEW op \in Ops, SwitchAlerts(q, op)
      PROVE  SpentInv'
  BY <1>3 DEF SwitchAlerts, Receive
<1>4. ASSUME NEW q \in Requests, NEW s \in SessionIds, NEW op \in Ops,
             GetSession(q, s, op)
      PROVE  SpentInv'
  BY <1>4 DEF GetSession, Receive
<1>5. ASSUME NEW q \in Requests, Create(q) PROVE SpentInv'
  BY <1>5 DEF Create, Answer, DefaultRow
<1>6. ASSUME NEW q \in Requests, Open(q) PROVE SpentInv'
  BY <1>6, OpenFacts
<1>7. ASSUME NEW q \in Requests, ReadVersion(q) PROVE SpentInv'
  BY <1>7, VersionFacts
<1>8. ASSUME NEW q \in Requests, ReadRow(q) PROVE SpentInv'
  BY <1>8 DEF ReadRow
<1>9. ASSUME NEW q \in Requests, ReadSymbols(q) PROVE SpentInv'
  BY <1>9 DEF ReadSymbols
<1>10. ASSUME NEW q \in Requests, ReadIntervals(q) PROVE SpentInv'
  BY <1>10 DEF ReadIntervals
<1>11. ASSUME NEW q \in Requests, UpdateSession(q) PROVE SpentInv'
  BY <1>11, UpdateFacts
<1>12. ASSUME NEW q \in Requests, CheckSession(q) PROVE SpentInv'
  BY <1>12, CheckFacts
<1>13. ASSUME NEW q \in Requests, BeginReplace(q) PROVE SpentInv'
  BY <1>13 DEF BeginReplace, Answer
<1>14. ASSUME NEW q \in Requests, CommitReplace(q) PROVE SpentInv'
  BY <1>14, CommitFacts
<1>15. ASSUME NEW q \in Requests, CloseSession(q) PROVE SpentInv'
  BY <1>15 DEF CloseSession, Answer
<1>16. ASSUME NEW q \in Requests, StoreFails(q) PROVE SpentInv'
  BY <1>16 DEF StoreFails, Answer
<1>17. ASSUME NEW s \in SessionIds, Expire(s) PROVE SpentInv'
  BY <1>17 DEF Expire
<1>18. CASE Crash
  BY <1>18 DEF Crash
<1>19. CASE UNCHANGED vars
  BY <1>19 DEF vars
<1> QED
  BY <1>1, <1>2, <1>3, <1>4, <1>5, <1>6, <1>7, <1>8, <1>9, <1>10, <1>11,
     <1>12, <1>13, <1>14, <1>15, <1>16, <1>17, <1>18, <1>19
     DEF Next, AllAnswered

(* Only a session that was never committed is committed.                   *)
LEMMA SavedStep ==
  ASSUME TypeOK, OpInv, SidInv, BaseInv, FilledInv, SpentInv, SavedOnce,
         [Next]_vars
  PROVE  SavedOnce'
<1> USE ConstantsAssumption, NoneAssumption
        DEF TypeOK, NewReq, Working, Idle, Goto, SetReq, store, counters,
            history, Rows, Req, OpInv, OpOf, SidInv, SidOf, BaseInv, SpentInv,
            SavedOnce
<1>1. ASSUME NEW q \in Requests, NEW s \in SessionIds, Configure(q, s)
      PROVE  SavedOnce'
  BY <1>1 DEF Configure, Receive
<1>2. ASSUME NEW q \in Requests, NEW s \in SessionIds, Cancel(q, s)
      PROVE  SavedOnce'
  BY <1>2 DEF Cancel, Receive
<1>3. ASSUME NEW q \in Requests, NEW op \in Ops, SwitchAlerts(q, op)
      PROVE  SavedOnce'
  BY <1>3 DEF SwitchAlerts, Receive
<1>4. ASSUME NEW q \in Requests, NEW s \in SessionIds, NEW op \in Ops,
             GetSession(q, s, op)
      PROVE  SavedOnce'
  BY <1>4 DEF GetSession, Receive
<1>5. ASSUME NEW q \in Requests, Create(q) PROVE SavedOnce'
  BY <1>5 DEF Create, Answer, DefaultRow
<1>6. ASSUME NEW q \in Requests, Open(q) PROVE SavedOnce'
  BY <1>6, OpenFacts
<1>7. ASSUME NEW q \in Requests, ReadVersion(q) PROVE SavedOnce'
  BY <1>7, VersionFacts
<1>8. ASSUME NEW q \in Requests, ReadRow(q) PROVE SavedOnce'
  BY <1>8 DEF ReadRow
<1>9. ASSUME NEW q \in Requests, ReadSymbols(q) PROVE SavedOnce'
  BY <1>9 DEF ReadSymbols
<1>10. ASSUME NEW q \in Requests, ReadIntervals(q) PROVE SavedOnce'
  BY <1>10 DEF ReadIntervals
<1>11. ASSUME NEW q \in Requests, UpdateSession(q) PROVE SavedOnce'
  BY <1>11, UpdateFacts
<1>12. ASSUME NEW q \in Requests, CheckSession(q) PROVE SavedOnce'
  BY <1>12, CheckFacts
<1>13. ASSUME NEW q \in Requests, BeginReplace(q) PROVE SavedOnce'
  BY <1>13 DEF BeginReplace, Answer
<1>14. ASSUME NEW q \in Requests, CommitReplace(q) PROVE SavedOnce'
  BY <1>14, CommitFacts
<1>15. ASSUME NEW q \in Requests, CloseSession(q) PROVE SavedOnce'
  BY <1>15 DEF CloseSession, Answer
<1>16. ASSUME NEW q \in Requests, StoreFails(q) PROVE SavedOnce'
  BY <1>16 DEF StoreFails, Answer
<1>17. ASSUME NEW s \in SessionIds, Expire(s) PROVE SavedOnce'
  BY <1>17 DEF Expire
<1>18. CASE Crash
  BY <1>18 DEF Crash
<1>19. CASE UNCHANGED vars
  BY <1>19 DEF vars
<1> QED
  BY <1>1, <1>2, <1>3, <1>4, <1>5, <1>6, <1>7, <1>8, <1>9, <1>10, <1>11,
     <1>12, <1>13, <1>14, <1>15, <1>16, <1>17, <1>18, <1>19
     DEF Next, AllAnswered

(* Only an invalid default refuses a first configuration.                  *)
LEMMA RaceStep ==
  ASSUME TypeOK, OpInv, SidInv, BaseInv, FilledInv, ConfigureSurvivesRace,
         [Next]_vars
  PROVE  ConfigureSurvivesRace'
<1> USE ConstantsAssumption, NoneAssumption
        DEF TypeOK, NewReq, Working, Idle, Goto, SetReq, store, counters,
            history, Req, Opening, OpInv, OpOf,
            ConfigureSurvivesRace
<1>1. ASSUME NEW q \in Requests, NEW s \in SessionIds, Configure(q, s)
      PROVE  ConfigureSurvivesRace'
  BY <1>1 DEF Configure, Receive
<1>2. ASSUME NEW q \in Requests, NEW s \in SessionIds, Cancel(q, s)
      PROVE  ConfigureSurvivesRace'
  BY <1>2 DEF Cancel, Receive
<1>3. ASSUME NEW q \in Requests, NEW op \in Ops, SwitchAlerts(q, op)
      PROVE  ConfigureSurvivesRace'
  BY <1>3 DEF SwitchAlerts, Receive
<1>4. ASSUME NEW q \in Requests, NEW s \in SessionIds, NEW op \in Ops,
             GetSession(q, s, op)
      PROVE  ConfigureSurvivesRace'
  BY <1>4 DEF GetSession, Receive
<1>5. ASSUME NEW q \in Requests, Create(q) PROVE ConfigureSurvivesRace'
  BY <1>5, DefaultType DEF Create, Answer
<1>6. ASSUME NEW q \in Requests, Open(q) PROVE ConfigureSurvivesRace'
  BY <1>6, OpenFacts
<1>7. ASSUME NEW q \in Requests, ReadVersion(q) PROVE ConfigureSurvivesRace'
  BY <1>7, VersionFacts
<1>8. ASSUME NEW q \in Requests, ReadRow(q) PROVE ConfigureSurvivesRace'
  BY <1>8 DEF ReadRow
<1>9. ASSUME NEW q \in Requests, ReadSymbols(q) PROVE ConfigureSurvivesRace'
  BY <1>9 DEF ReadSymbols
<1>10. ASSUME NEW q \in Requests, ReadIntervals(q) PROVE ConfigureSurvivesRace'
  BY <1>10 DEF ReadIntervals
<1>11. ASSUME NEW q \in Requests, UpdateSession(q) PROVE ConfigureSurvivesRace'
  BY <1>11, UpdateFacts
<1>12. ASSUME NEW q \in Requests, CheckSession(q) PROVE ConfigureSurvivesRace'
  BY <1>12, CheckFacts
<1>13. ASSUME NEW q \in Requests, BeginReplace(q) PROVE ConfigureSurvivesRace'
  BY <1>13 DEF BeginReplace, Answer
<1>14. ASSUME NEW q \in Requests, CommitReplace(q) PROVE ConfigureSurvivesRace'
  BY <1>14, CommitFacts
<1>15. ASSUME NEW q \in Requests, CloseSession(q) PROVE ConfigureSurvivesRace'
  BY <1>15 DEF CloseSession, Answer
<1>16. ASSUME NEW q \in Requests, StoreFails(q) PROVE ConfigureSurvivesRace'
  BY <1>16 DEF StoreFails, Answer
<1>17. ASSUME NEW s \in SessionIds, Expire(s) PROVE ConfigureSurvivesRace'
  BY <1>17 DEF Expire
<1>18. CASE Crash
  BY <1>18 DEF Crash
<1>19. CASE UNCHANGED vars
  BY <1>19 DEF vars
<1> QED
  BY <1>1, <1>2, <1>3, <1>4, <1>5, <1>6, <1>7, <1>8, <1>9, <1>10, <1>11,
     <1>12, <1>13, <1>14, <1>15, <1>16, <1>17, <1>18, <1>19
     DEF Next, AllAnswered

(* The conjunction is preserved by every step.                             *)
LEMMA InvStep == IInv /\ [Next]_vars => IInv'
BY TypeStep, OpStep, SidStep, BaseStep, FilledStep, ReadStep, CopyStep,
   SpentStep, SavedStep, RaceStep
   DEF IInv

-----------------------------------------------------------------------------
(* The theorems                                                            *)

(* The inductive invariant holds in every reachable state.                 *)
THEOREM Invariance == Spec => []IInv
BY InitInv, InvStep, PTL DEF Spec

(* Every variable keeps its type.                                          *)
THEOREM TypeCorrect == Spec => []TypeOK
<1>1. IInv => TypeOK
  BY DEF IInv
<1> QED BY <1>1, Invariance, PTL

(* However often a session's button is pressed, and whatever answer is     *)
(* lost, the session is saved at most once.                                *)
THEOREM SavedCorrect == Spec => []SavedOnce
<1>1. IInv => SavedOnce
  BY DEF IInv
<1> QED BY <1>1, Invariance, PTL

(* Losing the race to create a chat's configuration is no error.           *)
THEOREM RaceCorrect == Spec => []ConfigureSurvivesRace
<1>1. IInv => ConfigureSurvivesRace
  BY DEF IInv
<1> QED BY <1>1, Invariance, PTL

(* The steps that do not touch the stored configuration.                   *)
LEMMA RowKept ==
  ASSUME IInv, [Next]_vars
  PROVE  \/ UNCHANGED <<row, committed>>
         \/ \E q \in Requests : Create(q) \/ CommitReplace(q)
<1> USE DEF store, counters, history
<1>1. ASSUME NEW q \in Requests, NEW s \in SessionIds,
             Configure(q, s) \/ Cancel(q, s)
      PROVE  UNCHANGED <<row, committed>>
  BY <1>1 DEF Configure, Cancel
<1>2. ASSUME NEW q \in Requests, NEW op \in Ops, SwitchAlerts(q, op)
      PROVE  UNCHANGED <<row, committed>>
  BY <1>2 DEF SwitchAlerts
<1>3. ASSUME NEW q \in Requests, NEW s \in SessionIds, NEW op \in Ops,
             GetSession(q, s, op)
      PROVE  UNCHANGED <<row, committed>>
  BY <1>3 DEF GetSession
<1>4. ASSUME NEW q \in Requests,
             \/ Open(q) \/ ReadVersion(q)
             \/ ReadRow(q) \/ ReadSymbols(q) \/ ReadIntervals(q)
             \/ CheckSession(q) \/ BeginReplace(q) \/ CloseSession(q)
             \/ StoreFails(q)
      PROVE  UNCHANGED <<row, committed>>
  BY <1>4 DEF Open, ReadVersion, ReadRow, ReadSymbols, ReadIntervals,
              CheckSession, BeginReplace, CloseSession, StoreFails
<1>5. ASSUME NEW q \in Requests, UpdateSession(q)
      PROVE  UNCHANGED <<row, committed>>
  BY <1>5 DEF UpdateSession
<1>6. ASSUME NEW s \in SessionIds, Expire(s)
      PROVE  UNCHANGED <<row, committed>>
  BY <1>6 DEF Expire
<1>7. CASE Crash
  BY <1>7 DEF Crash
<1>8. CASE UNCHANGED vars
  BY <1>8 DEF vars
<1> QED BY <1>1, <1>2, <1>3, <1>4, <1>5, <1>6, <1>7, <1>8
           DEF Next, AllAnswered

(* A first command inserts a paused configuration, if there is none.       *)
LEMMA CreateRefines ==
  ASSUME NEW q \in Requests, Create(q)
  PROVE  Versioned!Create \/ UNCHANGED row
BY DefaultType
   DEF Create, DefaultRow, Versioned!Create, Versioned!Rows,
       Versioned!Chosen, Rows, Chosen

(* A commit either switches the alerts of the version it relied on, or     *)
(* replaces its selections.                                                *)
LEMMA CommitRefines ==
  ASSUME IInv, NEW q \in Requests, CommitReplace(q)
  PROVE  Versioned!Switch \/ Versioned!Select \/ UNCHANGED row
<1>1. TypeOK /\ OpInv /\ SidInv /\ BaseInv /\ FilledInv /\ ReadInv
  BY DEF IInv
<1>2. CASE UNCHANGED row
  BY <1>2
<1>3. CASE ~UNCHANGED row
  <2>1. /\ pc[q] = "commit"
        /\ row \in Rows /\ row.version = req[q].base
        /\ row' \in Rows /\ row'.version = row.version + 1
        /\ row'.enabled = req[q].enabled
        /\ row'.provider = req[q].provider
        /\ row'.symbols = Members(req[q].symbols)
        /\ row'.intervals = req[q].intervals
    BY <1>1, <1>3, CommitFacts
  <2>2. row # NoRow
    BY <2>1, NoneAssumption
  <2>3. CASE req[q].op = "save"
    <3>1. row'.enabled = row.enabled
      BY <1>1, <2>1, <2>2, <2>3 DEF ReadInv, ReadOf, IsCurrent
    <3>2. row' = [row EXCEPT !.version = row.version + 1,
                             !.provider = row'.provider,
                             !.symbols = row'.symbols,
                             !.intervals = row'.intervals]
      BY <2>1, <3>1 DEF Rows
    <3>3. /\ row'.provider \in Providers
          /\ row'.symbols \in Versioned!Chosen(Symbols)
          /\ row'.intervals \in Versioned!Chosen(Intervals)
      BY <2>1 DEF Rows, Chosen, Versioned!Chosen
    <3> QED BY <2>2, <3>2, <3>3 DEF Versioned!Select
  <2>4. CASE req[q].op # "save"
    <3>1. /\ row'.provider = row.provider
          /\ row'.symbols = row.symbols
          /\ row'.intervals = row.intervals
      <4>1. row.symbols \in SUBSET Symbols
        BY <2>1 DEF Rows, Chosen
      <4> QED BY <1>1, <2>1, <2>2, <2>4, <4>1, OnceFacts
              DEF ReadInv, ReadOf, IsCurrent
    <3>2. row' = [row EXCEPT !.version = row.version + 1,
                             !.enabled = row'.enabled]
      BY <2>1, <3>1 DEF Rows
    <3>3. row'.enabled \in BOOLEAN
      BY <2>1 DEF Rows
    <3> QED BY <2>2, <3>2, <3>3 DEF Versioned!Switch
  <2> QED BY <2>3, <2>4
<1> QED BY <1>2, <1>3

(* The stored row behaves as one versioned configuration.                  *)
THEOREM Refinement == Spec => ImplementsVersioned
<1>1. Init => Versioned!Init
  BY EarlierAssumption
     DEF Init, Versioned!Init, Rows, Versioned!Rows, Chosen,
         Versioned!Chosen
<1>2. IInv /\ [Next]_vars => [Versioned!Next]_row
  BY RowKept, CreateRefines, CommitRefines DEF Versioned!Next
<1> QED BY <1>1, <1>2, Invariance, PTL
        DEF Spec, ImplementsVersioned, Versioned!Spec

(* What UntouchedSaveKeepsConfig says of a session's commit.               *)
Kept ==
  /\ row'.provider = EffectiveProvider(row.provider)
  /\ row'.intervals = row.intervals
  /\ \/ row'.symbols =
          {CanonicalSymbol(row'.provider, x) : x \in row.symbols}
     \/ ~NamesAgree /\ row'.symbols = row.symbols
  /\ Cardinality(row'.symbols) = Cardinality(row.symbols)

UntouchedKept ==
  \A s \in SessionIds :
    committed'[s] # committed[s] /\ s \notin edited => Kept

(* What a commit of a session nobody edited stores is what was stored,     *)
(* under today's provider and names.                                       *)
LEMMA UntouchedStep == IInv /\ [Next]_vars => UntouchedKept
<1> SUFFICES ASSUME IInv, [Next]_vars PROVE UntouchedKept
  OBVIOUS
<1>1. CASE UNCHANGED <<row, committed>>
  BY <1>1 DEF UntouchedKept
<1>2. ASSUME NEW q \in Requests, Create(q) PROVE UntouchedKept
  BY <1>2 DEF Create, history, UntouchedKept
<1>3. ASSUME NEW q \in Requests, CommitReplace(q) PROVE UntouchedKept
  <2> SUFFICES ASSUME NEW s \in SessionIds,
                      committed'[s] # committed[s], s \notin edited
               PROVE  Kept
    BY DEF UntouchedKept
  <2>1. TypeOK /\ OpInv /\ SidInv /\ BaseInv /\ FilledInv /\ CopyInv
    BY DEF IInv
  <2>2. /\ pc[q] = "commit" /\ req[q].op = "save" /\ req[q].sid = s
        /\ row \in Rows /\ row.version = req[q].base
        /\ row'.provider = req[q].provider
        /\ row'.symbols = Members(req[q].symbols)
        /\ row'.intervals = req[q].intervals
    BY <1>3, <2>1, CommitFacts DEF TypeOK
  <2>3. row # NoRow
    BY <2>2, NoneAssumption
  <2>4. Untouched(req[q]) /\ Served(req[q])
    BY <2>1, <2>2, <2>3 DEF CopyInv, IsCurrent
  <2>5. Distinct(req[q].symbols)
    BY <2>1, <2>2 DEF FilledInv, FilledOf
  <2> DEFINE p == EffectiveProvider(row.provider)
  <2>6. /\ row.symbols \in SUBSET Symbols
        /\ p \in Providers /\ row'.provider = p
    BY <2>2, <2>4, EffectiveType, ConstantsAssumption
       DEF Untouched, Served, EffectiveProvider, Rows, Chosen
  <2>7. CASE req[q].symbols = Once(row.symbols)
    <3>1. row'.symbols = row.symbols
      BY <2>2, <2>6, <2>7, OnceFacts
    <3>2. ASSUME NamesAgree, NEW x \in row.symbols
          PROVE  CanonicalSymbol(p, x) = x
      <4>1. PICK i \in req[q].intervals : TRUE
        BY <2>2, <2>4 DEF Rows, Chosen, Untouched
      <4>2. <<p, x, i>> \in Supported
        BY <2>2, <2>4, <2>6, <3>1 DEF Served
      <4> QED BY <3>2, <4>2 DEF NamesAgree
    <3>3. NamesAgree =>
            {CanonicalSymbol(p, x) : x \in row.symbols} = row.symbols
      BY <3>2
    <3> QED BY <2>2, <2>4, <2>6, <3>1, <3>3 DEF Untouched, Kept
  <2>8. CASE req[q].symbols = Renamed(p, row.symbols)
    <3> DEFINE image == {CanonicalSymbol(p, x) : x \in row.symbols}
    <3>1. row'.symbols = image /\ Cardinality(image) = Cardinality(row.symbols)
      BY <2>2, <2>5, <2>6, <2>8, RenamedFacts
    <3> QED BY <2>2, <2>4, <2>6, <3>1 DEF Untouched, Kept
  <2> QED BY <2>4, <2>7, <2>8 DEF Untouched
<1> QED BY <1>1, <1>2, <1>3, RowKept

(* Opening a configuration and saving it unedited keeps its provider, its  *)
(* intervals and all its symbols, by today's names.                        *)
THEOREM UntouchedCorrect == Spec => UntouchedSaveKeepsConfig
<1>1. UntouchedKept => [UntouchedKept]_vars
  OBVIOUS
<1> QED BY <1>1, UntouchedStep, Invariance, PTL
        DEF Spec, UntouchedSaveKeepsConfig, UntouchedKept, Kept

=============================================================================
