--------------------------- MODULE MockPool_proofs ---------------------------
(***************************************************************************)
(* Proofs about MockPool, for any pools, hosts and property descriptors,   *)
(* and any order of the calls of the test, the clients and the other       *)
(* library.                                                                *)
(***************************************************************************)
EXTENDS MockPool, TLAPS

\* Nobody is not a pool, so that `current' tells the two apart.
LEMMA NobodyIsNoPool == Nobody \notin Pools
  BY PoolAssumption DEF Nobody

\* What HooksAgree needs of the variables it speaks of.
HooksTyped ==
  /\ resolver \in Pools \cup {Nobody}
  /\ current \in Pools \cup {Nobody}
  /\ DOMAIN installation = Pools
  /\ installation = [p \in Pools |-> installation[p]]

HooksInv == HooksTyped /\ HooksAgree

\* Every call keeps the records of who is installed in step.
LEMMA HooksStep ==
  ASSUME HooksInv, [PoolNext]_poolVars
  PROVE  HooksInv'
<1> USE NobodyIsNoPool DEF HooksInv, HooksTyped, HooksAgree
<1>1. ASSUME NEW p \in Pools, Install(p) PROVE HooksInv'
  \* nobody was installed, so no pool had a snapshot
  <2>1. \A q \in Pools : installation[q] = {}
    BY <1>1 DEF Install, Installs
  <2>2. /\ installation' = [installation EXCEPT ![p] = {Captured}]
        /\ current' = p /\ resolver' = p
    BY <1>1 DEF Install
  <2> QED BY <2>1, <2>2
<1>2. ASSUME NEW p \in Pools, InstallFails(p) PROVE HooksInv'
  BY <1>2 DEF InstallFails, Installs
<1>3. ASSUME NEW p \in Pools, Uninstall(p) PROVE HooksInv'
  <2>1. current = p /\ installation[p] # {} /\ \A q \in Pools \ {p} : installation[q] = {}
    BY <1>3 DEF Uninstall
  <2>2. CASE UNCHANGED <<resolver, current, installation>>
    BY <2>2
  <2>3. CASE /\ installation' = [installation EXCEPT ![p] = {}]
             /\ resolver' = Nobody /\ current' = Nobody
    BY <2>1, <2>3
  <2> QED BY <1>3, <2>1, <2>2, <2>3 DEF Uninstall
<1>4. CASE UNCHANGED <<resolver, current, installation>>
  BY <1>4
<1> QED
  BY <1>1, <1>2, <1>3, <1>4 DEF PoolNext, poolVars, hooks, GetRelay, Connect, Leave, Wrap, Unwrap

LEMMA HooksInvariant == PoolSpec => []HooksInv
<1>1. PoolInit => HooksInv
  BY NobodyIsNoPool DEF PoolInit, HooksInv, HooksTyped, HooksAgree
<1> QED BY <1>1, HooksStep, PTL DEF PoolSpec

\* For any number of pools: at most one is installed, and the pools, the module
\* variable currentInstallation and MockWebSocket agree on which, whichever installs
\* and uninstalls have thrown.
THEOREM HooksAreInStep == PoolSpec => []HooksAgree
  BY HooksInvariant, PTL DEF HooksInv

-----------------------------------------------------------------------------
\* Putting back a snapshot that can be put back gives every global its value again.
LEMMA RestoreGivesValues ==
  ASSUME NEW snapshot, NEW now, \A key \in Globals : ~RestoreThrows(snapshot[key])
  PROVE  \A key \in Globals : Restore(snapshot, now)[key].value = snapshot[key].value
  BY DEF Restore, Restored, Set, Globals

\* An install that throws, for whatever global and after whatever it has replaced,
\* leaves both values as it found them.
THEOREM FailedInstallIsUndone == PoolSpec => FailedInstallChangesNothing
<1>1. ASSUME HooksInv, [PoolNext]_poolVars, installs' # installs, current' = Nobody, ~stuck'
      PROVE  \A key \in Globals : globals'[key].value = globals[key].value
  <2>1. PICK p \in Pools : InstallFails(p)
    BY <1>1, NobodyIsNoPool
       DEF PoolNext, poolVars, Install, Uninstall, GetRelay, Connect, Leave, Wrap, Unwrap
  <2> DEFINE now == IF SetThrows(globals["WebSocket"]) THEN globals ELSE WithMock
  <2>2. globals' = Restore(globals, now) /\ \A key \in Globals : ~RestoreThrows(globals[key])
    BY <1>1, <2>1 DEF InstallFails, RolledBack
  <2> QED BY <2>2, RestoreGivesValues
<1>2. ASSUME HooksInv
      PROVE  [PoolNext]_poolVars
               => [installs' # installs /\ current' = Nobody /\ ~stuck'
                     => \A key \in Globals : globals'[key].value = globals[key].value]_poolVars
  BY <1>1, <1>2
<1> QED BY <1>2, HooksInvariant, PTL DEF PoolSpec, FailedInstallChangesNothing

-----------------------------------------------------------------------------
Values == Seq(Pools \cup {"native", "mock", "other"})

\* Nothing of a pool is in this value of a global.
Clean(value) == Range(value) \cap (Pools \cup {"mock"}) = {}

Found(key) ==
  \/ wrapped[key] = <<>>
  \/ \E value \in Values, by \in Pools \cup {Nobody}, n \in Nat :
       wrapped[key] = <<[value |-> value, by |-> by, installs |-> n]>>

GlobalsTyped ==
  /\ globals \in [Globals -> Property]
  /\ \A p \in Pools : installation[p] \subseteq [Globals -> Property]
  /\ DOMAIN wrapped = Globals /\ \A key \in Globals : Found(key)
  /\ installs \in Nat

\* NothingIsLeftBehind, strengthened by what may be put back later: the snapshots of
\* the pools, and what the other library found when no pool was installed.
CleanInv ==
  ~stuck =>
    \A key \in Globals \ misplaced :
      /\ current = Nobody => Clean(globals[key].value)
      /\ \A p \in Pools : \A snapshot \in installation[p] : Clean(snapshot[key].value)
      /\ wrapped[key] # <<>> /\ Head(wrapped[key]).by = Nobody
           => Clean(Head(wrapped[key]).value)

LEMMA Wrapped ==
  ASSUME NEW value \in Values, NEW token \in Pools \cup {"native", "mock", "other"}
  PROVE  /\ <<token>> \o value \in Values
         /\ token = "other" /\ Clean(value) => Clean(<<token>> \o value)
<1>1. <<token>> \o value \in Values
  BY DEF Values
<1>2. ASSUME token = "other", Clean(value), NEW i \in DOMAIN (<<token>> \o value)
      PROVE  (<<token>> \o value)[i] \notin Pools \cup {"mock"}
  <2>1. CASE i = 1
    BY <1>2, <2>1, PoolAssumption DEF Values
  <2>2. CASE i # 1
    <3>1. i - 1 \in DOMAIN value /\ (<<token>> \o value)[i] = value[i - 1]
      BY <1>2, <2>2 DEF Values
    <3> QED BY <1>2, <3>1 DEF Clean, Range
  <2> QED BY <2>1, <2>2
<1> QED BY <1>1, <1>2 DEF Clean, Range

LEMMA RestoreTyped ==
  ASSUME NEW snapshot \in [Globals -> Property], NEW now \in [Globals -> Property]
  PROVE  Restore(snapshot, now) \in [Globals -> Property]
  BY DEF Restore, Restored, Set, Globals, Property

LEMMA GlobalsStep ==
  ASSUME HooksInv, GlobalsTyped, [PoolNext]_poolVars
  PROVE  GlobalsTyped'
<1> USE DEF GlobalsTyped
<1>mock. WithMock \in [Globals -> Property]
  <2>1. Set(<<"mock">>) \in Property
    BY DEF Set, Property
  <2> QED BY <2>1 DEF WithMock, Globals
<1>1. ASSUME NEW p \in Pools, Install(p) PROVE GlobalsTyped'
  <2>1. WithMock["fetch"].value \in Values
    BY <1>mock DEF Globals, Property, Values
  <2>2. Set(<<p>> \o WithMock["fetch"].value) \in Property
    BY <2>1, Wrapped DEF Set, Property, Values
  <2>3. globals' \in [Globals -> Property]
    BY <1>1, <1>mock, <2>2 DEF Install
  <2>4. \A q \in Pools : installation'[q] \subseteq [Globals -> Property]
    BY <1>1 DEF Install, Captured, HooksInv, HooksTyped
  <2>5. installs' \in Nat /\ wrapped' = wrapped
    BY <1>1 DEF Install, Installs, other
  <2> QED BY <2>3, <2>4, <2>5 DEF Found
<1>2. ASSUME NEW p \in Pools, InstallFails(p) PROVE GlobalsTyped'
  <2>1. globals' \in [Globals -> Property]
    BY <1>2, <1>mock, RestoreTyped DEF InstallFails, RolledBack
  <2>2. installs' \in Nat /\ wrapped' = wrapped /\ installation' = installation
    BY <1>2 DEF InstallFails, Installs, other
  <2> QED BY <2>1, <2>2 DEF Found
<1>3. ASSUME NEW p \in Pools, Uninstall(p) PROVE GlobalsTyped'
  <2>1. globals' \in [Globals -> Property]
    BY <1>3, RestoreTyped DEF Uninstall
  <2>2. \A q \in Pools : installation'[q] \subseteq [Globals -> Property]
    BY <1>3 DEF Uninstall, HooksInv, HooksTyped
  <2>3. installs' = installs /\ wrapped' = wrapped
    BY <1>3 DEF Uninstall, other
  <2> QED BY <2>1, <2>2, <2>3 DEF Found
<1>4. ASSUME NEW key \in Globals, Wrap(key) PROVE GlobalsTyped'
  <2>1. globals[key].value \in Values
    BY DEF Property, Values
  <2>2. Set(<<"other">> \o globals[key].value) \in Property
    BY <2>1, Wrapped DEF Set, Property, Values
  <2>3. globals' \in [Globals -> Property]
    BY <1>4, <2>2 DEF Wrap
  <2>4. current \in Pools \cup {Nobody}
    BY DEF HooksInv, HooksTyped
  <2>5. DOMAIN wrapped' = Globals /\ \A k \in Globals : Found(k)'
    BY <1>4, <2>1, <2>4 DEF Wrap, Found
  <2> QED BY <1>4, <2>3, <2>5 DEF Wrap
<1>5. ASSUME NEW key \in Globals, Unwrap(key) PROVE GlobalsTyped'
  <2>1. Head(wrapped[key]).value \in Values
    BY <1>5 DEF Unwrap, Found
  <2>2. Set(Head(wrapped[key]).value) \in Property
    BY <2>1 DEF Set, Property, Values
  <2>3. globals' \in [Globals -> Property]
    BY <1>5, <2>2 DEF Unwrap
  <2>4. DOMAIN wrapped' = Globals /\ \A k \in Globals : Found(k)'
    BY <1>5 DEF Unwrap, Found
  <2> QED BY <1>5, <2>3, <2>4 DEF Unwrap
<1>6. CASE UNCHANGED <<hooks, wrapped, installs>>
  BY <1>6 DEF hooks, Found
<1> QED
  BY <1>1, <1>2, <1>3, <1>4, <1>5, <1>6 DEF PoolNext, poolVars, other, GetRelay, Connect, Leave

LEMMA GlobalsInvariant == PoolSpec => []GlobalsTyped
<1>1. PoolInit => GlobalsTyped
  <2> SUFFICES ASSUME PoolInit PROVE GlobalsTyped
    OBVIOUS
  <2>0. <<"native">> \in Seq(Pools \cup {"native", "mock", "other"})
    OBVIOUS
  <2>1. \A property \in [kind : Kinds, value : {<<"native">>}] : property \in Property
    <3> TAKE property \in [kind : Kinds, value : {<<"native">>}]
    <3>1. property.kind \in {"data", "accessor", "none", "frozen"}
      BY PoolAssumption
    <3>2. property.value = <<"native">>
      OBVIOUS
    <3>3. property = [kind |-> property.kind, value |-> property.value]
      OBVIOUS
    <3> QED BY <2>0, <3>1, <3>2, <3>3 DEF Property
  <2>2. globals \in [Globals -> Property]
    BY <2>1 DEF PoolInit
  <2>3. \A p \in Pools : installation[p] = {}
    BY DEF PoolInit
  <2>4. installs \in Nat /\ DOMAIN wrapped = Globals /\ \A key \in Globals : wrapped[key] = <<>>
    BY DEF PoolInit
  <2> QED BY <2>2, <2>3, <2>4 DEF GlobalsTyped, Found
<1> QED BY <1>1, GlobalsStep, HooksInvariant, PTL DEF PoolSpec

LEMMA CleanStep ==
  ASSUME HooksInv, GlobalsTyped, CleanInv, [PoolNext]_poolVars
  PROVE  CleanInv'
<1> SUFFICES ASSUME ~stuck', NEW key \in Globals \ misplaced'
             PROVE  /\ current' = Nobody => Clean(globals'[key].value)
                    /\ \A p \in Pools :
                         \A snapshot \in installation'[p] : Clean(snapshot[key].value)
                    /\ wrapped'[key] # <<>> /\ Head(wrapped'[key]).by = Nobody
                         => Clean(Head(wrapped'[key]).value)
  BY DEF CleanInv
<1> DEFINE Goal == /\ current' = Nobody => Clean(globals'[key].value)
                   /\ \A p \in Pools :
                        \A snapshot \in installation'[p] : Clean(snapshot[key].value)
                   /\ wrapped'[key] # <<>> /\ Head(wrapped'[key]).by = Nobody
                        => Clean(Head(wrapped'[key]).value)
<1>0. ASSUME ~stuck, key \notin misplaced
      PROVE  /\ current = Nobody => Clean(globals[key].value)
             /\ \A p \in Pools : \A snapshot \in installation[p] : Clean(snapshot[key].value)
             /\ wrapped[key] # <<>> /\ Head(wrapped[key]).by = Nobody
                  => Clean(Head(wrapped[key]).value)
  BY <1>0 DEF CleanInv
<1>1. ASSUME NEW p \in Pools, Install(p) PROVE Goal
  <2>1. /\ current' = p /\ current = Nobody /\ wrapped' = wrapped
        /\ ~stuck /\ key \notin misplaced
        /\ installation' = [installation EXCEPT ![p] = {globals}]
    BY <1>1 DEF Install, Installs, Captured, other
  <2> QED BY <1>0, <2>1, NobodyIsNoPool DEF HooksInv, HooksTyped
<1>2. ASSUME NEW p \in Pools, InstallFails(p) PROVE Goal
  <2> DEFINE now == IF SetThrows(globals["WebSocket"]) THEN globals ELSE WithMock
  <2>1. /\ current = Nobody /\ current' = Nobody /\ wrapped' = wrapped
        /\ ~stuck /\ key \notin misplaced /\ installation' = installation
        /\ globals' = Restore(globals, now) /\ \A k \in Globals : ~RestoreThrows(globals[k])
    BY <1>2 DEF InstallFails, Installs, RolledBack, other
  <2>2. globals'[key].value = globals[key].value
    BY <2>1, RestoreGivesValues
  <2> QED BY <1>0, <2>1, <2>2
<1>3. ASSUME NEW p \in Pools, Uninstall(p) PROVE Goal
  <2>1. PICK snapshot \in installation[p] :
          /\ globals' = Restore(snapshot, globals)
          /\ \A k \in Globals : ~RestoreThrows(snapshot[k])
          /\ installation' = [installation EXCEPT ![p] = {}]
    BY <1>3 DEF Uninstall
  <2>2. ~stuck /\ key \notin misplaced /\ wrapped' = wrapped
    BY <1>3 DEF Uninstall, other
  <2>3. globals'[key].value = snapshot[key].value
    BY <2>1, RestoreGivesValues
  <2>4. \A q \in Pools : installation'[q] \subseteq installation[q]
    BY <2>1 DEF HooksInv, HooksTyped
  <2> QED BY <1>0, <2>1, <2>2, <2>3, <2>4
<1>4. ASSUME NEW k \in Globals, Wrap(k) PROVE Goal
  <2>1. /\ ~stuck /\ key \notin misplaced /\ current' = current
        /\ installation' = installation
    BY <1>4 DEF Wrap
  <2>2. CASE k # key
    <3>1. globals'[key] = globals[key] /\ wrapped'[key] = wrapped[key]
      BY <1>4, <2>2 DEF Wrap
    <3> QED BY <1>0, <2>1, <3>1
  <2>3. CASE k = key
    <3>1. globals[key].value \in Values
      BY DEF GlobalsTyped, Property, Values
    <3>2. globals'[key].value = <<"other">> \o globals[key].value
      BY <1>4, <2>3 DEF Wrap, Set, GlobalsTyped
    <3>3. wrapped'[key] = <<[value |-> globals[key].value, by |-> current, installs |-> installs]>>
      BY <1>4, <2>3 DEF Wrap, GlobalsTyped
    <3>4. current = Nobody => Clean(globals'[key].value)
      BY <1>0, <2>1, <3>1, <3>2, Wrapped
    <3>5. Head(wrapped'[key]).by = current /\ Head(wrapped'[key]).value = globals[key].value
      BY <3>3
    <3> QED BY <1>0, <2>1, <3>4, <3>5
  <2> QED BY <2>2, <2>3
<1>5. ASSUME NEW k \in Globals, Unwrap(k) PROVE Goal
  <2>1. ~stuck /\ current' = current /\ installation' = installation /\ key \notin misplaced
    BY <1>5 DEF Unwrap
  <2>2. CASE k # key
    <3>1. globals'[key] = globals[key] /\ wrapped'[key] = wrapped[key]
      BY <1>5, <2>2 DEF Unwrap
    <3> QED BY <1>0, <2>1, <3>1
  <2>3. CASE k = key
    <3>1. wrapped[key] # <<>> /\ wrapped'[key] = <<>>
      BY <1>5, <2>3 DEF Unwrap, GlobalsTyped
    <3>2. Head(wrapped[key]).by = current
      BY <1>5, <2>3 DEF Unwrap
    <3>3. globals'[key].value = Head(wrapped[key]).value
      BY <1>5, <2>3 DEF Unwrap, Set, GlobalsTyped
    <3> QED BY <1>0, <2>1, <3>1, <3>2, <3>3
  <2> QED BY <2>2, <2>3
<1>6. CASE UNCHANGED <<hooks, wrapped, misplaced, stuck>>
  BY <1>0, <1>6 DEF hooks
<1> QED
  BY <1>1, <1>2, <1>3, <1>4, <1>5, <1>6 DEF PoolNext, poolVars, other, GetRelay, Connect, Leave

\* Whatever pools come and go, and whatever wraps the globals in between: with no
\* pool installed, neither MockWebSocket nor the fetch handler of a pool is left in
\* them, unless an accessor could not be put back or the other library put them there.
THEOREM GlobalsAreGivenBack == PoolSpec => []NothingIsLeftBehind
<1>1. PoolInit => CleanInv
  <2> SUFFICES ASSUME PoolInit, NEW key \in Globals
               PROVE  Clean(globals[key].value)
    BY DEF PoolInit, CleanInv
  <2>1. globals[key].value = <<"native">>
    BY DEF PoolInit
  <2> QED BY <2>1, PoolAssumption DEF Clean, Range
<1>2. CleanInv => NothingIsLeftBehind
  BY DEF CleanInv, NothingIsLeftBehind, Clean
<1> QED
  BY <1>1, <1>2, CleanStep, HooksInvariant, GlobalsInvariant, PTL DEF PoolSpec

-----------------------------------------------------------------------------
(***************************************************************************)
(* InstalledPoolAnswers. Fetch answers through the handlers of the pools   *)
(* in its value: what is needed is that the pool installed now is there    *)
(* once and no other is, and that what will be put back (the snapshots,    *)
(* what the other library found) belongs to who will be installed then.    *)
(***************************************************************************)
NoPool(value) == \A i \in DOMAIN value : value[i] \notin Pools

OnlyPool(value, p) ==
  \E i \in DOMAIN value : value[i] = p /\ \A j \in DOMAIN value : value[j] \in Pools => j = i

BelongsTo(value, owner) == IF owner = Nobody THEN NoPool(value) ELSE OnlyPool(value, owner)

FetchInv ==
  "fetch" \notin misplaced =>
    /\ BelongsTo(globals["fetch"].value, current)
    /\ \A p \in Pools : \A snapshot \in installation[p] : NoPool(snapshot["fetch"].value)
    /\ wrapped["fetch"] # <<>> =>
         BelongsTo(Head(wrapped["fetch"]).value, Head(wrapped["fetch"]).by)

RelaysTyped == relays \in [Pools -> SUBSET RelayUrl]

\* A wrapper changes nothing of whose value it is; the handler of a pool around a
\* value without any makes it that pool's.
LEMMA Prepended ==
  ASSUME NEW value \in Values, NEW token \in Pools \cup {"native", "mock", "other"}
  PROVE  /\ \A owner : token \notin Pools /\ BelongsTo(value, owner)
                         => BelongsTo(<<token>> \o value, owner)
         /\ token \in Pools /\ NoPool(value) => OnlyPool(<<token>> \o value, token)
<1> DEFINE longer == <<token>> \o value
<1>1. /\ DOMAIN value = 1..Len(value) /\ Len(value) \in Nat
      /\ DOMAIN longer = 1..(Len(value) + 1)
      /\ longer[1] = token
      /\ \A i \in DOMAIN value : longer[i + 1] = value[i]
  BY DEF Values
<1> HIDE DEF longer
<1>2. \A i \in DOMAIN longer : i = 1 \/ \E k \in DOMAIN value : i = k + 1
  <2> SUFFICES ASSUME NEW i \in DOMAIN longer, i # 1 PROVE \E k \in DOMAIN value : i = k + 1
    OBVIOUS
  <2>1. i - 1 \in DOMAIN value /\ i = (i - 1) + 1
    BY <1>1
  <2> QED BY <2>1
<1>3. ASSUME token \notin Pools, NoPool(value) PROVE NoPool(longer)
  BY <1>1, <1>2, <1>3 DEF NoPool
<1>4. ASSUME token \notin Pools, NEW p, OnlyPool(value, p) PROVE OnlyPool(longer, p)
  <2>1. PICK i \in DOMAIN value :
          value[i] = p /\ \A j \in DOMAIN value : value[j] \in Pools => j = i
    BY <1>4 DEF OnlyPool
  <2>2. i + 1 \in DOMAIN longer /\ longer[i + 1] = p
    BY <2>1, <1>1
  <2>3. ASSUME NEW j \in DOMAIN longer, longer[j] \in Pools PROVE j = i + 1
    BY <2>1, <2>3, <1>1, <1>2, <1>4
  <2> QED BY <2>2, <2>3 DEF OnlyPool
<1>5. ASSUME token \in Pools, NoPool(value) PROVE OnlyPool(longer, token)
  <2>1. 1 \in DOMAIN longer /\ longer[1] = token
    BY <1>1
  <2>2. ASSUME NEW j \in DOMAIN longer, longer[j] \in Pools PROVE j = 1
    BY <2>2, <1>1, <1>2, <1>5 DEF NoPool
  <2> QED BY <2>1, <2>2 DEF OnlyPool
<1> QED BY <1>3, <1>4, <1>5 DEF longer, BelongsTo

\* A restore, whether or not it throws, leaves in fetch what was there or what the
\* snapshot has.
LEMMA FetchRestored ==
  ASSUME NEW snapshot, NEW now
  PROVE  Restore(snapshot, now)["fetch"].value =
           IF \E key \in Globals : RestoreThrows(snapshot[key])
             THEN now["fetch"].value ELSE snapshot["fetch"].value
  BY DEF Restore, Restored, Set

LEMMA FetchStep ==
  ASSUME HooksInv, GlobalsTyped, FetchInv, [PoolNext]_poolVars
  PROVE  FetchInv'
<1> SUFFICES ASSUME "fetch" \notin misplaced'
             PROVE  /\ BelongsTo(globals'["fetch"].value, current')
                    /\ \A p \in Pools :
                         \A snapshot \in installation'[p] : NoPool(snapshot["fetch"].value)
                    /\ wrapped'["fetch"] # <<>> =>
                         BelongsTo(Head(wrapped'["fetch"]).value, Head(wrapped'["fetch"]).by)
  BY DEF FetchInv, BelongsTo, NoPool, OnlyPool
<1> DEFINE Goal == /\ BelongsTo(globals'["fetch"].value, current')
                   /\ \A p \in Pools :
                        \A snapshot \in installation'[p] : NoPool(snapshot["fetch"].value)
                   /\ wrapped'["fetch"] # <<>> =>
                        BelongsTo(Head(wrapped'["fetch"]).value, Head(wrapped'["fetch"]).by)
<1>0. ASSUME "fetch" \notin misplaced
      PROVE  /\ BelongsTo(globals["fetch"].value, current)
             /\ \A p \in Pools :
                  \A snapshot \in installation[p] : NoPool(snapshot["fetch"].value)
             /\ wrapped["fetch"] # <<>> =>
                  BelongsTo(Head(wrapped["fetch"]).value, Head(wrapped["fetch"]).by)
  BY <1>0 DEF FetchInv
<1>mock. WithMock["fetch"] = globals["fetch"]
  BY DEF WithMock, GlobalsTyped, Globals
<1>1. ASSUME NEW p \in Pools, Install(p) PROVE Goal
  <2>1. /\ current = Nobody /\ current' = p /\ wrapped' = wrapped /\ "fetch" \notin misplaced
        /\ installation' = [installation EXCEPT ![p] = {globals}]
        /\ globals' = [WithMock EXCEPT !["fetch"] = Set(<<p>> \o @.value)]
    BY <1>1 DEF Install, Installs, Captured, other
  <2>2. globals["fetch"].value \in Values
    BY DEF GlobalsTyped, Property, Values, Globals
  <2>3. globals'["fetch"].value = <<p>> \o globals["fetch"].value
    <3>1. "fetch" \in DOMAIN WithMock
      BY DEF WithMock, GlobalsTyped, Globals
    <3> QED BY <2>1, <3>1, <1>mock DEF Set
  <2>4. NoPool(globals["fetch"].value)
    BY <1>0, <2>1 DEF BelongsTo
  <2>5. BelongsTo(globals'["fetch"].value, current')
    BY <2>1, <2>2, <2>3, <2>4, Prepended, NobodyIsNoPool DEF BelongsTo
  <2>6. \A q \in Pools : \A snapshot \in installation'[q] : NoPool(snapshot["fetch"].value)
    BY <1>0, <2>1, <2>4 DEF HooksInv, HooksTyped
  <2> QED BY <1>0, <2>1, <2>5, <2>6
<1>2. ASSUME NEW p \in Pools, InstallFails(p) PROVE Goal
  <2> DEFINE now == IF SetThrows(globals["WebSocket"]) THEN globals ELSE WithMock
  <2>1. /\ current' = current /\ wrapped' = wrapped /\ "fetch" \notin misplaced
        /\ installation' = installation
        /\ globals' = Restore(globals, now)
    BY <1>2 DEF InstallFails, Installs, RolledBack, other
  <2>2. globals'["fetch"].value = globals["fetch"].value
    BY <2>1, <1>mock, FetchRestored
  <2> QED BY <1>0, <2>1, <2>2
<1>3. ASSUME NEW p \in Pools, Uninstall(p) PROVE Goal
  <2>1. PICK snapshot \in installation[p] :
          /\ globals' = Restore(snapshot, globals)
          /\ IF \E key \in Globals : RestoreThrows(snapshot[key])
               THEN UNCHANGED <<current, installation>>
               ELSE /\ installation' = [installation EXCEPT ![p] = {}]
                    /\ current' = IF current = p THEN Nobody ELSE current
    BY <1>3 DEF Uninstall
  <2>2. "fetch" \notin misplaced /\ wrapped' = wrapped
    BY <1>3 DEF Uninstall, other
  <2>3. current = p
    BY <1>3 DEF Uninstall, HooksInv, HooksAgree
  <2>4. CASE \E key \in Globals : RestoreThrows(snapshot[key])
    BY <1>0, <2>1, <2>2, <2>4, FetchRestored
  <2>5. CASE ~\E key \in Globals : RestoreThrows(snapshot[key])
    <3>1. globals'["fetch"].value = snapshot["fetch"].value
      BY <2>1, <2>5, FetchRestored
    <3>2. current' = Nobody /\ \A q \in Pools : installation'[q] \subseteq installation[q]
      BY <2>1, <2>3, <2>5 DEF HooksInv, HooksTyped
    <3> QED BY <1>0, <2>2, <3>1, <3>2 DEF BelongsTo
  <2> QED BY <2>4, <2>5
<1>4. ASSUME NEW key \in Globals, Wrap(key) PROVE Goal
  <2>1. /\ "fetch" \notin misplaced /\ current' = current /\ installation' = installation
    BY <1>4 DEF Wrap
  <2>2. CASE key # "fetch"
    <3>1. globals'["fetch"] = globals["fetch"] /\ wrapped'["fetch"] = wrapped["fetch"]
      BY <1>4, <2>2 DEF Wrap
    <3> QED BY <1>0, <2>1, <3>1
  <2>3. CASE key = "fetch"
    <3>1. globals["fetch"].value \in Values
      BY DEF GlobalsTyped, Property, Values, Globals
    <3>2. globals'["fetch"].value = <<"other">> \o globals["fetch"].value
      BY <1>4, <2>3 DEF Wrap, Set, GlobalsTyped
    <3>3. wrapped'["fetch"] =
            <<[value |-> globals["fetch"].value, by |-> current, installs |-> installs]>>
      BY <1>4, <2>3 DEF Wrap, GlobalsTyped
    <3>4. BelongsTo(globals'["fetch"].value, current')
      BY <1>0, <2>1, <3>1, <3>2, Prepended, PoolAssumption
    <3>5. /\ Head(wrapped'["fetch"]).by = current
          /\ Head(wrapped'["fetch"]).value = globals["fetch"].value
      BY <3>3
    <3> QED BY <1>0, <2>1, <3>4, <3>5
  <2> QED BY <2>2, <2>3
<1>5. ASSUME NEW key \in Globals, Unwrap(key) PROVE Goal
  <2>1. "fetch" \notin misplaced /\ current' = current /\ installation' = installation
    BY <1>5 DEF Unwrap
  <2>2. CASE key # "fetch"
    <3>1. globals'["fetch"] = globals["fetch"] /\ wrapped'["fetch"] = wrapped["fetch"]
      BY <1>5, <2>2 DEF Unwrap
    <3> QED BY <1>0, <2>1, <3>1
  <2>3. CASE key = "fetch"
    <3>1. wrapped["fetch"] # <<>> /\ wrapped'["fetch"] = <<>>
      BY <1>5, <2>3 DEF Unwrap, GlobalsTyped
    <3>2. Head(wrapped["fetch"]).by = current
      BY <1>5, <2>3 DEF Unwrap
    <3>3. globals'["fetch"].value = Head(wrapped["fetch"]).value
      BY <1>5, <2>3 DEF Unwrap, Set, GlobalsTyped
    <3> QED BY <1>0, <2>1, <3>1, <3>2, <3>3
  <2> QED BY <2>2, <2>3
<1>6. CASE UNCHANGED <<hooks, wrapped, misplaced>>
  BY <1>0, <1>6 DEF hooks
<1> QED
  BY <1>1, <1>2, <1>3, <1>4, <1>5, <1>6 DEF PoolNext, poolVars, other, GetRelay, Connect, Leave

LEMMA RelaysStep ==
  ASSUME RelaysTyped, [PoolNext]_poolVars
  PROVE  RelaysTyped'
<1>1. ASSUME NEW p \in Pools, NEW url \in Url, GetRelay(p, url) PROVE RelaysTyped'
  <2>1. normalizeUrl(url) \in RelayUrl
    BY DEF normalizeUrl, Url, RelayUrl
  <2> QED BY <1>1, <2>1 DEF GetRelay, RelaysTyped
<1>2. CASE UNCHANGED relays
  BY <1>2 DEF RelaysTyped
<1> QED
  BY <1>1, <1>2
     DEF PoolNext, poolVars, Install, InstallFails, Installs, Uninstall, Connect, Leave, Wrap, Unwrap

-----------------------------------------------------------------------------
LEMMA FirstIsAny ==
  ASSUME NEW headers \in Seq([name : STRING, value : STRING]),
         \A i, j \in DOMAIN headers :
           headers[i].name = "accept" /\ headers[j].name = "accept" => i = j
  PROVE  "nostr" \in getHeaderValue(headers, "accept") <=>
           [name |-> "accept", value |-> "nostr"] \in Range(headers)
<1>1. DOMAIN headers = 1..Len(headers) /\ Len(headers) \in Nat
  OBVIOUS
<1>2. \A i \in DOMAIN headers : headers[i] \in [name : STRING, value : STRING]
  <2> DEFINE Header == [name : STRING, value : STRING]
  <2> HIDE DEF Header
  <2>1. headers \in Seq(Header)
    BY DEF Header
  <2>2. \A i \in DOMAIN headers : headers[i] \in Header
    BY <2>1
  <2> QED BY <2>2 DEF Header
<1>3. \A i \in DOMAIN headers : headers[i].name = "accept" =>
        \A k \in 1..(i - 1) : headers[k].name # "accept"
  <2> SUFFICES ASSUME NEW i \in DOMAIN headers, headers[i].name = "accept",
                      NEW k \in 1..(i - 1), headers[k].name = "accept"
               PROVE  FALSE
    OBVIOUS
  <2>1. k \in DOMAIN headers /\ k # i
    BY <1>1
  <2> QED BY <2>1
<1>4. "nostr" \in getHeaderValue(headers, "accept") <=>
        \E i \in DOMAIN headers : headers[i].name = "accept" /\ headers[i].value = "nostr"
  BY <1>3 DEF getHeaderValue
<1>5. \A i \in DOMAIN headers :
        headers[i] = [name |-> "accept", value |-> "nostr"] <=>
          headers[i].name = "accept" /\ headers[i].value = "nostr"
  BY <1>2
<1> QED BY <1>4, <1>5 DEF Range

\* The handler decides as fetch would: by the headers of init if there are any.
LEMMA InfoIsRecognised ==
  ASSUME AcceptNamedOnce, NEW request \in Requests
  PROVE  isNip11Request(request) <=> AsksForInfo(request)
<1>1. /\ \A headers \in request.init \cup {request.headers} :
           /\ headers \in Seq([name : STRING, value : STRING])
           /\ "nostr" \in getHeaderValue(headers, "accept") <=>
                [name |-> "accept", value |-> "nostr"] \in Range(headers)
      /\ \A first, second \in request.init : first = second
  BY RequestAssumption, FirstIsAny DEF AcceptNamedOnce
<1>2. CASE request.init = {}
  BY <1>1, <1>2 DEF isNip11Request, AsksForInfo
<1>3. CASE request.init # {}
  <2>1. PICK headers \in request.init : headers = CHOOSE h \in request.init : TRUE
    BY <1>3
  <2>2. request.init \cup {h \in {request.headers} : request.init = {}} = {headers}
    BY <1>1, <1>3, <2>1
  <2>3. isNip11Request(request) <=> "nostr" \in getHeaderValue(headers, "accept")
    BY <1>3, <2>1 DEF isNip11Request
  <2> QED BY <1>1, <2>1, <2>2, <2>3 DEF AsksForInfo
<1> QED BY <1>2, <1>3

\* The URL that is looked up is that of the relay with the host and the security of
\* the one that was fetched.
LEMMA UrlIsFound ==
  ASSUME NEW url \in [scheme : {"wss", "ws", "https", "http"}, host : Hosts, slashes : Nat],
         NEW u \in RelayUrl
  PROVE  u = normalizeUrl(httpToWsUrl(url)) <=>
           /\ u.host = url.host
           /\ u.scheme = "wss" <=> url.scheme \in {"wss", "https"}
<1> DEFINE scheme == CASE url.scheme = "https" -> "wss" [] url.scheme = "http" -> "ws"
                       [] OTHER -> url.scheme
<1>1. httpToWsUrl(url) = [scheme |-> scheme, host |-> url.host, slashes |-> url.slashes]
  BY DEF httpToWsUrl
<1>2. normalizeUrl(httpToWsUrl(url)) = [scheme |-> scheme, host |-> url.host, slashes |-> 0]
  BY <1>1 DEF normalizeUrl
<1>3. u = [scheme |-> u.scheme, host |-> u.host, slashes |-> 0] /\ u.scheme \in {"wss", "ws"}
  BY DEF RelayUrl
<1>4. scheme = IF url.scheme \in {"wss", "https"} THEN "wss" ELSE "ws"
  OBVIOUS
<1> HIDE DEF scheme
<1>5. u = [scheme |-> scheme, host |-> url.host, slashes |-> 0]
        <=> u.scheme = scheme /\ u.host = url.host
  BY <1>3
<1> QED BY <1>2, <1>3, <1>4, <1>5

\* One handler in the value: its pool answers for what it knows.
LEMMA OnePoolAnswers ==
  ASSUME NEW p \in Pools, NEW value \in Values, OnlyPool(value, p), NEW request
  PROVE  LET url == normalizeUrl(httpToWsUrl(request.url))
         IN  Answer(value, request) =
               IF isNip11Request(request) /\ url \in relays[p] THEN {<<p, url>>} ELSE {}
<1> DEFINE url == normalizeUrl(httpToWsUrl(request.url))
           knowing == {i \in DOMAIN value : value[i] \in Pools /\ url \in relays[value[i]]}
           answers == {<<value[i], url>> : i \in {j \in knowing : \A k \in knowing : j <= k}}
<1>1. PICK i \in DOMAIN value :
        value[i] = p /\ \A j \in DOMAIN value : value[j] \in Pools => j = i
  BY DEF OnlyPool
<1>2. Answer(value, request) = IF isNip11Request(request) /\ knowing # {} THEN answers ELSE {}
  BY DEF Answer
<1> HIDE DEF url
<1>3. CASE url \in relays[p]
  <2>1. knowing = {i} /\ i <= i
    BY <1>1, <1>3 DEF Values
  <2> HIDE DEF knowing
  <2>2. {j \in knowing : \A k \in knowing : j <= k} = {i}
    BY <2>1
  <2>3. answers = {<<p, url>>}
    BY <1>1, <2>2
  <2> QED BY <1>2, <1>3, <2>1, <2>3 DEF url
<1>4. CASE url \notin relays[p]
  <2>1. knowing = {}
    BY <1>1, <1>4
  <2> QED BY <1>2, <1>4, <2>1 DEF url
<1> QED BY <1>3, <1>4

\* However many pools have come and gone, whatever has wrapped fetch, and also when a
\* restore has thrown: the pool that is installed answers the requests for information
\* about the relays it has by now, and nobody answers any other.
THEOREM FetchIsAnswered ==
  ASSUME AcceptNamedOnce
  PROVE  PoolSpec => []InstalledPoolAnswers
<1>1. PoolInit => FetchInv /\ RelaysTyped
  <2> SUFFICES ASSUME PoolInit PROVE FetchInv /\ RelaysTyped
    OBVIOUS
  <2>1. /\ globals["fetch"].value = <<"native">> /\ current = Nobody
        /\ \A p \in Pools : installation[p] = {}
        /\ wrapped["fetch"] = <<>>
    BY DEF PoolInit, Globals
  <2>2. NoPool(<<"native">>)
    BY PoolAssumption DEF NoPool
  <2>3. RelaysTyped
    BY DEF PoolInit, RelaysTyped
  <2> QED BY <2>1, <2>2, <2>3 DEF FetchInv, BelongsTo
<1>2. ASSUME HooksInv, GlobalsTyped, FetchInv, RelaysTyped
      PROVE  InstalledPoolAnswers
  <2> SUFFICES ASSUME current # Nobody, "fetch" \notin misplaced, NEW request \in Requests
               PROVE  Answer(globals["fetch"].value, request) =
                        {<<current, u>> : u \in {r \in relays[current] :
                           /\ AsksForInfo(request)
                           /\ r.host = request.url.host
                           /\ r.scheme = "wss" <=> request.url.scheme \in {"wss", "https"}}}
    BY DEF InstalledPoolAnswers
  <2> DEFINE url == normalizeUrl(httpToWsUrl(request.url))
             asked == {r \in relays[current] :
                         /\ AsksForInfo(request)
                         /\ r.host = request.url.host
                         /\ r.scheme = "wss" <=> request.url.scheme \in {"wss", "https"}}
  <2>1. current \in Pools /\ relays[current] \subseteq RelayUrl
    BY <1>2 DEF HooksInv, HooksTyped, RelaysTyped
  <2>2. globals["fetch"].value \in Values /\ OnlyPool(globals["fetch"].value, current)
    BY <1>2 DEF GlobalsTyped, Property, Values, Globals, FetchInv, BelongsTo
  <2>3. Answer(globals["fetch"].value, request) =
          IF AsksForInfo(request) /\ url \in relays[current] THEN {<<current, url>>} ELSE {}
    BY <2>1, <2>2, OnePoolAnswers, InfoIsRecognised
  <2>4. \A r \in relays[current] :
          r = url <=> /\ r.host = request.url.host
                      /\ r.scheme = "wss" <=> request.url.scheme \in {"wss", "https"}
    BY <2>1, RequestAssumption, UrlIsFound
  <2>5. asked = IF AsksForInfo(request) /\ url \in relays[current] THEN {url} ELSE {}
    <3> HIDE DEF url
    <3> QED BY <2>4
  <2> HIDE DEF url, asked
  <2>6. {<<current, u>> : u \in asked} =
          IF AsksForInfo(request) /\ url \in relays[current] THEN {<<current, url>>} ELSE {}
    BY <2>5
  <2> QED BY <2>3, <2>6 DEF asked
<1>3. HooksInv /\ GlobalsTyped /\ FetchInv /\ RelaysTyped /\ [PoolNext]_poolVars
        => FetchInv' /\ RelaysTyped'
  BY FetchStep, RelaysStep
<1> QED
  BY <1>1, <1>2, <1>3, HooksInvariant, GlobalsInvariant, PTL DEF PoolSpec

=============================================================================
