------------------------ MODULE RelayRequests_proofs ------------------------
(***************************************************************************)
(* Proofs about RelayRequests, for any clients, messages, limits, handlers *)
(* and calls of the test.                                                  *)
(*                                                                         *)
(* The invariant, RelayInv, relates a message to all that has been said of *)
(* it. Each step speaks of one message at most (IsSpeech): what it puts in *)
(* the queue carries the number of that message, or 0. The message is then *)
(* answered, awaits something, or is one that gets no answer (Fate), and   *)
(* so it stays accounted for (AllAccounted). A subscription is what the    *)
(* latest message about it that got no NOTICE asked for (AllWanted), which *)
(* holds because a message that changes subscriptions is refused before it *)
(* changes them or not at all. A delivery moves a message from the queue   *)
(* to its client, and neither loses nor repeats it (Delivered).            *)
(*                                                                         *)
(* That no event is missed (the last section) rests on three facts: an     *)
(* event that a client has been given is never taken back (GotIsKept), a   *)
(* step that adds an event to the store broadcasts it to every             *)
(* subscription that matches (StepsAnnounce), and a REQ is answered with   *)
(* all that is stored and matches (ReqFindsAll).                           *)
(***************************************************************************)
EXTENDS RelayRequests, EventStore_proofs
-----------------------------------------------------------------------------
(***************************************************************************)
(* The codec: the order of its checks does not matter to what it accepts.  *)
(***************************************************************************)

\* An error is told from Accepted by its length.
LEMMA ErrorsAreNotAccepted ==
  /\ \A x, y : <<x, y>> # Accepted
  /\ \A x, y, z : <<x, y, z>> # Accepted
  /\ <<"message exceeds max_message_length">> # Accepted
  /\ <<"invalid JSON">> # Accepted
  /\ <<"invalid message format">> # Accepted
<1>1. Len(Accepted) = 1 /\ Accepted[1] = "accepted"
  BY DEF Accepted
<1>2. \A x, y : Len(<<x, y>>) = 2
  OBVIOUS
<1>3. \A x, y, z : Len(<<x, y, z>>) = 3
  OBVIOUS
<1>4. <<"message exceeds max_message_length">>[1] # "accepted"
  OBVIOUS
<1>5. <<"invalid JSON">>[1] # "accepted"
  OBVIOUS
<1>6. <<"invalid message format">>[1] # "accepted"
  OBVIOUS
<1>7. \A x, y : <<x, y>> # Accepted
  BY <1>1, <1>2
<1>8. \A x, y, z : <<x, y, z>> # Accepted
  BY <1>1, <1>3
<1> QED BY <1>1, <1>4, <1>5, <1>6, <1>7, <1>8

\* Being within a limit is not exceeding what the limit resolves to.
LEMMA LimitsAreWithin ==
  ASSUME NEW limitation, IsLimitation(limitation), NEW n \in Int
  PROVE  LET limits == ResolveLimits(limitation)
         IN /\ Within(limitation, "max_message_length", 1048576, n) <=> ~(n > limits.maxMessageLength)
            /\ Within(limitation, "max_subid_length", 256, n) <=> ~(n > limits.maxSubIdLength)
            /\ Within(limitation, "max_limit", 10000, n) <=> ~(n > limits.maxLimitValue)
            /\ Within(limitation, "max_event_tags", 2048, n) <=> ~(n > limits.maxEventTags)
            /\ Within(limitation, "max_content_length", 262144, n) <=> ~(n > limits.maxContentLength)
            /\ limits.maxFilterCount = 32
<1> DEFINE limits == ResolveLimits(limitation)
<1>1. 1024 * 1024 = 1048576 /\ 256 * 1024 = 262144
  OBVIOUS
<1>2. /\ limits.maxMessageLength = GetLimit(limitation, "max_message_length", 1048576)
      /\ limits.maxSubIdLength = GetLimit(limitation, "max_subid_length", 256)
      /\ limits.maxLimitValue = GetLimit(limitation, "max_limit", 10000)
      /\ limits.maxEventTags = GetLimit(limitation, "max_event_tags", 2048)
      /\ limits.maxContentLength = GetLimit(limitation, "max_content_length", 262144)
      /\ limits.maxFilterCount = 32
  BY <1>1 DEF ResolveLimits, DefaultLimits
<1>3. ASSUME NEW field, NEW default \in Int
      PROVE  Within(limitation, field, default, n) <=> ~(n > GetLimit(limitation, field, default))
  BY DEF Within, GetLimit, IsLimitation
<1> HIDE DEF limits
<1> QED BY <1>2, <1>3 DEF limits

\* The checks of an EVENT are those of an acceptable one.
LEMMA EventsAreChecked ==
  ASSUME NEW raw, IsRawMessage(raw), NEW limitation, IsLimitation(limitation), NEW type
  PROVE  /\ EventError(type, raw.items, ResolveLimits(limitation)) = Accepted
              <=> HasEvent(raw.items, limitation)
         /\ HasEvent(raw.items, limitation) => Len(raw.items) >= 2 /\ IsEventShape(raw.items[2])
<1> DEFINE items == raw.items
           limits == ResolveLimits(limitation)
           value == items[2]
<1>1. Len(items) \in Nat /\ DOMAIN items = 1..Len(items)
  BY LenProperties DEF IsRawMessage
<1>2. Len(items) >= 2 =>
        /\ IsFilterShape(value) => value.valid \subseteq EventFields
        /\ IsEventShape(value) => value.tags \in Nat /\ value.bytes \in Nat
  <2>1. Len(items) >= 2 => 2 \in DOMAIN items
    BY <1>1
  <2> QED BY <2>1 DEF IsRawMessage
<1> HIDE DEF items, value
<1>3. Len(items) >= 2 => (IsEventShape(value) <=> value.is = "object" /\ value.valid = EventFields)
  BY <1>2 DEF IsEventShape, IsFilterShape
<1>4. Len(items) >= 2 /\ IsEventShape(value) =>
        /\ Within(limitation, "max_event_tags", 2048, value.tags) <=> ~(value.tags > limits.maxEventTags)
        /\ Within(limitation, "max_content_length", 262144, value.bytes) <=> ~(value.bytes > limits.maxContentLength)
  BY <1>2, LimitsAreWithin
<1> HIDE DEF limits
<1>5. HasEvent(items, limitation) <=>
        /\ Len(items) >= 2 /\ IsEventShape(value)
        /\ Within(limitation, "max_event_tags", 2048, value.tags)
        /\ Within(limitation, "max_content_length", 262144, value.bytes)
  BY <1>3 DEF HasEvent, value
<1>6. EventError(type, items, limits) = Accepted <=>
        /\ ~(Len(items) < 2) /\ IsEventShape(value)
        /\ ~(value.tags > limits.maxEventTags)
        /\ ~(value.bytes > limits.maxContentLength)
  BY ErrorsAreNotAccepted DEF EventError, value
<1>7. Len(items) >= 2 <=> ~(Len(items) < 2)
  BY <1>1
<1> QED BY <1>4, <1>5, <1>6, <1>7 DEF items, value, limits

\* The checks of a subscription id are those of an acceptable one.
LEMMA SubIdsAreChecked ==
  ASSUME NEW raw, IsRawMessage(raw), NEW limitation, IsLimitation(limitation), NEW type
  PROVE  /\ SubIdError(type, raw.items, ResolveLimits(limitation)) = Accepted
              <=> HasSubId(raw.items, limitation)
         /\ HasSubId(raw.items, limitation) => Len(raw.items) >= 2 /\ IsString(raw.items[2])
<1> DEFINE items == raw.items
           limits == ResolveLimits(limitation)
           value == items[2]
<1>1. Len(items) \in Nat /\ DOMAIN items = 1..Len(items)
  BY LenProperties DEF IsRawMessage
<1>2. Len(items) >= 2 => (IsString(value) => value.bytes \in Nat)
  <2>1. Len(items) >= 2 => 2 \in DOMAIN items
    BY <1>1
  <2> QED BY <2>1 DEF IsRawMessage
<1> HIDE DEF items, value
<1>3. Len(items) >= 2 /\ IsString(value) =>
        (Within(limitation, "max_subid_length", 256, value.bytes) <=> ~(value.bytes > limits.maxSubIdLength))
  BY <1>2, LimitsAreWithin
<1> HIDE DEF limits
<1>4. HasSubId(items, limitation) <=>
        /\ Len(items) >= 2 /\ IsString(value)
        /\ Within(limitation, "max_subid_length", 256, value.bytes)
  BY DEF HasSubId, IsString, value
<1>5. SubIdError(type, items, limits) = Accepted <=>
        /\ ~(Len(items) < 2) /\ IsString(value)
        /\ ~(value.bytes > limits.maxSubIdLength)
  BY ErrorsAreNotAccepted DEF SubIdError, value
<1>6. Len(items) >= 2 <=> ~(Len(items) < 2)
  BY <1>1
<1> QED BY <1>3, <1>4, <1>5, <1>6 DEF items, value, limits

\* The checks of the filters are those of acceptable ones.
LEMMA FiltersAreChecked ==
  ASSUME NEW raw, IsRawMessage(raw), NEW limitation, IsLimitation(limitation), NEW type
  PROVE  FilterError(type, raw.items, ResolveLimits(limitation)) = Accepted
           <=> HasFilters(raw.items, limitation)
<1> DEFINE items == raw.items
           limits == ResolveLimits(limitation)
           Faulty(i) == ~IsFilterShape(items[i]) \/ LimitExceedsMax(items[i], limits)
           faulty == {i \in 3..Len(items) : Faulty(i)}
<1>1. Len(items) \in Nat /\ DOMAIN items = 1..Len(items)
  BY LenProperties DEF IsRawMessage
<1>2. ASSUME NEW i \in 3..Len(items)
      PROVE  ~Faulty(i) <=>
               /\ items[i].is = "object"
               /\ "limit" \in DOMAIN items[i] => Within(limitation, "max_limit", 10000, items[i].limit)
  <2>1. i \in DOMAIN items
    BY <1>1
  <2>2. IsFilterShape(items[i]) /\ "limit" \in DOMAIN items[i] => items[i].limit \in Int
    BY <2>1 DEF IsRawMessage
  <2> HIDE DEF items
  <2>3. IsFilterShape(items[i]) /\ "limit" \in DOMAIN items[i] =>
          (Within(limitation, "max_limit", 10000, items[i].limit) <=> ~(items[i].limit > limits.maxLimitValue))
    BY <2>2, LimitsAreWithin
  <2> HIDE DEF limits
  <2> QED BY <2>3 DEF IsFilterShape, LimitExceedsMax
<1>3. limits.maxFilterCount = 32
  BY LimitsAreWithin, 0 \in Int
<1>4. FilterError(type, items, limits) = Accepted <=>
        ~(Len(items) < 3) /\ ~(Len(items) - 2 > limits.maxFilterCount) /\ faulty = {}
  <2> HIDE DEF items, limits
  <2> QED BY ErrorsAreNotAccepted DEF FilterError
<1> HIDE DEF Faulty, items, limits
<1>5. faulty = {} <=> \A i \in 3..Len(items) : ~Faulty(i)
  OBVIOUS
<1>6. Len(items) \in 3..34 <=> ~(Len(items) < 3) /\ ~(Len(items) - 2 > limits.maxFilterCount)
  <2>1. \A n \in Nat : n \in 3..34 <=> ~(n < 3) /\ ~(n - 2 > 32)
    OBVIOUS
  <2> QED BY <2>1, <1>1, <1>3
<1> HIDE DEF faulty
<1>7. HasFilters(items, limitation) <=> Len(items) \in 3..34 /\ \A i \in 3..Len(items) : ~Faulty(i)
  BY <1>2 DEF HasFilters
<1> QED BY <1>4, <1>5, <1>6, <1>7 DEF items, limits

\* What is accepted is what is acceptable.
LEMMA AcceptedIsAcceptable ==
  ASSUME NEW raw, IsRawMessage(raw), NEW limitation, IsLimitation(limitation)
  PROVE  ParseClientMessage(raw, limitation) = Accepted <=> Acceptable(raw, limitation)
<1> DEFINE items == raw.items
           limits == ResolveLimits(limitation)
           type == IF IsString(Head(items)) THEN Head(items).text ELSE "none"
<1>1. Within(limitation, "max_message_length", 1048576, raw.length) <=> ~(raw.length > limits.maxMessageLength)
  BY LimitsAreWithin DEF IsRawMessage
<1>2. EventError(type, items, limits) = Accepted <=> HasEvent(items, limitation)
  BY EventsAreChecked
<1>3. SubIdError(type, items, limits) = Accepted <=> HasSubId(items, limitation)
  BY SubIdsAreChecked
<1>4. FilterError(type, items, limits) = Accepted <=> HasFilters(items, limitation)
  BY FiltersAreChecked
<1>5. items # <<>> => Head(items) = items[1]
  <2>1. items \in Seq({raw.items[i] : i \in DOMAIN raw.items})
    BY DEF IsRawMessage
  <2> HIDE DEF items
  <2> QED BY <2>1, HeadTailProperties
<1> HIDE DEF limits, items, type
<1>6. ParseClientMessage(raw, limitation) = Accepted <=>
        /\ ~(raw.length > limits.maxMessageLength)
        /\ raw.json
        /\ items # <<>>
        /\ type \in {"EVENT", "AUTH"} => EventError(type, items, limits) = Accepted
        /\ type \in {"REQ", "COUNT"} =>
             SubIdError(type, items, limits) = Accepted /\ FilterError(type, items, limits) = Accepted
        /\ type = "CLOSE" => SubIdError(type, items, limits) = Accepted
  <2>1. ParseClientMessage(raw, limitation) =
          IF raw.length > limits.maxMessageLength THEN <<"message exceeds max_message_length">>
          ELSE IF ~raw.json THEN <<"invalid JSON">>
          ELSE IF items = <<>> THEN <<"invalid message format">>
          ELSE IF type \in {"EVENT", "AUTH"} THEN EventError(type, items, limits)
          ELSE IF type \in {"REQ", "COUNT"} /\ SubIdError(type, items, limits) = Accepted
            THEN FilterError(type, items, limits)
          ELSE IF type \in {"REQ", "COUNT", "CLOSE"} THEN SubIdError(type, items, limits)
          ELSE Accepted
    BY DEF ParseClientMessage, limits, items, type
  <2> QED BY <2>1, ErrorsAreNotAccepted
<1>7. items # <<>> => type = IF items[1].is = "string" THEN items[1].text ELSE "none"
  BY <1>5 DEF type, IsString
<1>8. Acceptable(raw, limitation) <=>
        /\ raw.json /\ items # <<>>
        /\ Within(limitation, "max_message_length", 1048576, raw.length)
        /\ items[1].is = "string" =>
             /\ items[1].text \in {"EVENT", "AUTH"} => HasEvent(items, limitation)
             /\ items[1].text \in {"REQ", "COUNT", "CLOSE"} => HasSubId(items, limitation)
             /\ items[1].text \in {"REQ", "COUNT"} => HasFilters(items, limitation)
  BY DEF Acceptable, items
<1> QED BY <1>1, <1>2, <1>3, <1>4, <1>6, <1>7, <1>8

-----------------------------------------------------------------------------
(***************************************************************************)
(* What has been said, and is on its way, in answer to a message.          *)
(***************************************************************************)

\* The types of what answers a message: the stored events of a REQ do not.
AnswerTypes == {"NOTICE", "OK", "CLOSED", "EOSE", "COUNT"}

\* The places, in what a client has been given and in the queue, of the messages of
\* some types that carry n.
Given(box, n, T) == {i \in DOMAIN box : box[i].n = n /\ box[i].type \in T}

\* Likewise in the queue.
Due(q, ws, n, T) ==
  {i \in DOMAIN q : q[i].ws = ws /\ q[i].message.n = n /\ q[i].message.type \in T}

\* Nothing of types T has been said to the client of ws about message n.
NothingSaid(q, box, ws, n, T) == Given(box, n, T) = {} /\ Due(q, ws, n, T) = {}

\* A set of one.
IsSingle(S) == \E i \in S : S = {i}

\* Exactly one message of types T has, in one place or the other.
SaidOnce(q, box, ws, n, T) ==
  \/ IsSingle(Given(box, n, T)) /\ Due(q, ws, n, T) = {}
  \/ Given(box, n, T) = {} /\ IsSingle(Due(q, ws, n, T))

\* Queueing more adds what is said there.
LEMMA DueGrows ==
  ASSUME NEW q, IsList(q), NEW t, IsList(t), NEW ws, NEW n, NEW T
  PROVE  /\ Due(t, ws, n, T) = {} => Due(q \o t, ws, n, T) = Due(q, ws, n, T)
         /\ Due(q, ws, n, T) = {} /\ IsSingle(Due(t, ws, n, T)) => IsSingle(Due(q \o t, ws, n, T))
         /\ Due(t, ws, n, T) # {} => Due(q \o t, ws, n, T) # {}
<1> DEFINE u == q \o t
           Hit(x) == x.ws = ws /\ x.message.n = n /\ x.message.type \in T
<1>1. /\ Len(u) = Len(q) + Len(t)
      /\ \A i \in 1..Len(q) : u[i] = q[i]
      /\ \A i \in 1..Len(t) : u[Len(q) + i] = t[i]
      /\ IsList(u)
  BY ListConcat
<1>2. /\ Len(q) \in Nat /\ DOMAIN q = 1..Len(q)
      /\ Len(t) \in Nat /\ DOMAIN t = 1..Len(t)
      /\ DOMAIN u = 1..Len(u)
  BY <1>1, ListProperties
<1>3. /\ Due(q, ws, n, T) = {i \in 1..Len(q) : Hit(q[i])}
      /\ Due(t, ws, n, T) = {i \in 1..Len(t) : Hit(t[i])}
      /\ Due(u, ws, n, T) = {i \in 1..Len(u) : Hit(u[i])}
  BY <1>2 DEF Due
<1> HIDE DEF u, Hit
<1>4. \A i \in 1..Len(u) : i \in 1..Len(q) \/ (i - Len(q) \in 1..Len(t) /\ Len(q) + (i - Len(q)) = i /\ i \notin 1..Len(q))
  BY <1>1, <1>2
<1>5. \A i \in 1..Len(q) : i \in 1..Len(u)
  BY <1>1, <1>2
<1>6. \A i \in 1..Len(t) : Len(q) + i \in 1..Len(u) /\ Len(q) + i \notin 1..Len(q)
  BY <1>1, <1>2
<1>7. \A i \in 1..Len(u) :
        Hit(u[i]) <=> (i \in 1..Len(q) /\ Hit(q[i]))
                        \/ (i - Len(q) \in 1..Len(t) /\ i \notin 1..Len(q) /\ Hit(t[i - Len(q)]))
  <2>1. \A i \in 1..Len(u) : i \notin 1..Len(q) => u[i] = t[i - Len(q)]
    BY <1>1, <1>4
  <2> QED BY <2>1, <1>1, <1>4
<1>8. ASSUME Due(t, ws, n, T) = {} PROVE Due(u, ws, n, T) = Due(q, ws, n, T)
  BY <1>3, <1>5, <1>7, <1>8
<1>9. ASSUME Due(q, ws, n, T) = {}, NEW j, Due(t, ws, n, T) = {j}
      PROVE  Due(u, ws, n, T) = {Len(q) + j}
  <2>1. j \in 1..Len(t) /\ Hit(t[j])
    BY <1>3, <1>9
  <2>2. Len(q) + j \in 1..Len(u) /\ Hit(u[Len(q) + j])
    BY <2>1, <1>1, <1>6
  <2>3. \A i \in 1..Len(u) : Hit(u[i]) => i = Len(q) + j
    <3> SUFFICES ASSUME NEW i \in 1..Len(u), Hit(u[i]) PROVE i = Len(q) + j
      OBVIOUS
    <3>1. i - Len(q) \in 1..Len(t) /\ Hit(t[i - Len(q)])
      BY <1>3, <1>7, <1>9
    <3>2. i - Len(q) = j
      BY <3>1, <1>3, <1>9
    <3> QED BY <3>2, <1>2, <1>1
  <2> QED BY <2>2, <2>3, <1>3
<1>10. ASSUME Due(t, ws, n, T) # {} PROVE Due(u, ws, n, T) # {}
  <2>1. PICK j \in 1..Len(t) : Hit(t[j])
    BY <1>10, <1>3
  <2>2. Len(q) + j \in 1..Len(u) /\ Hit(u[Len(q) + j])
    BY <2>1, <1>1, <1>6
  <2> QED BY <2>2, <1>3
<1>11. Due(q, ws, n, T) = {} /\ IsSingle(Due(t, ws, n, T)) => IsSingle(Due(u, ws, n, T))
  BY <1>9 DEF IsSingle
<1> QED BY <1>8, <1>10, <1>11 DEF u

\* What a client that is OPEN has been given when the first of the queue is delivered.
AfterDelivery(q, box, ws) ==
  IF Head(q).ws = ws THEN Append(box, Head(q).message) ELSE box

\* That loses nothing it is told, and tells it nothing twice.
LEMMA Delivered ==
  ASSUME NEW q, IsList(q), q # <<>>, NEW box, IsList(box), NEW ws, NEW n, NEW T
  PROVE  /\ NothingSaid(q, box, ws, n, T) <=> NothingSaid(Tail(q), AfterDelivery(q, box, ws), ws, n, T)
         /\ SaidOnce(q, box, ws, n, T) => SaidOnce(Tail(q), AfterDelivery(q, box, ws), ws, n, T)
<1> DEFINE after == AfterDelivery(q, box, ws)
           t == Head(q)
           r == Tail(q)
           Hit(x) == x.n = n /\ x.type \in T
           Q == Due(q, ws, n, T)
           R == Due(r, ws, n, T)
           B == Given(box, n, T)
           A == Given(after, n, T)
<1>1. /\ IsList(r) /\ Len(q) \in Nat \ {0} /\ Len(r) = Len(q) - 1
      /\ t = q[1] /\ \A i \in 1..Len(r) : r[i] = q[i + 1]
  BY ListTail
<1>2. DOMAIN q = 1..Len(q) /\ DOMAIN r = 1..Len(r) /\ DOMAIN box = 1..Len(box) /\ Len(box) \in Nat
  BY <1>1, ListProperties
<1>3. /\ Q = {i \in 1..Len(q) : q[i].ws = ws /\ Hit(q[i].message)}
      /\ R = {i \in 1..Len(r) : r[i].ws = ws /\ Hit(r[i].message)}
      /\ B = {i \in 1..Len(box) : Hit(box[i])}
  BY <1>2 DEF Due, Given
<1> HIDE DEF r, Q, R, B, after
<1>4. /\ \A i \in R : i + 1 \in Q
      /\ \A i \in Q : i # 1 => i - 1 \in R
      /\ 1 \in Q <=> t.ws = ws /\ Hit(t.message)
      /\ \A i \in Q : i \in Nat /\ i >= 1
      /\ \A i \in R : i \in Nat /\ i >= 1
  <2>1. \A i \in 1..Len(r) : i + 1 \in 1..Len(q)
    BY <1>1
  <2>2. \A i \in 1..Len(q) : i # 1 => i - 1 \in 1..Len(r) /\ (i - 1) + 1 = i
    BY <1>1
  <2>3. 1 \in 1..Len(q)
    BY <1>1
  <2>4. \A i \in R : i + 1 \in Q
    BY <2>1, <1>1, <1>3
  <2>5. \A i \in Q : i # 1 => i - 1 \in R
    BY <2>2, <1>1, <1>3
  <2>6. 1 \in Q <=> t.ws = ws /\ Hit(t.message)
    BY <2>3, <1>1, <1>3
  <2>7. (\A i \in Q : i \in Nat /\ i >= 1) /\ (\A i \in R : i \in Nat /\ i >= 1)
    BY <1>3
  <2> QED BY <2>4, <2>5, <2>6, <2>7
<1>5. /\ t.ws = ws /\ Hit(t.message) => A = B \cup {Len(box) + 1} /\ Len(box) + 1 \notin B
      /\ ~(t.ws = ws /\ Hit(t.message)) => A = B
  <2>1. CASE t.ws # ws
    <3>1. after = box
      BY <2>1 DEF AfterDelivery, after
    <3> QED BY <2>1, <3>1 DEF B
  <2>2. CASE t.ws = ws
    <3> DEFINE b == Append(box, t.message)
    <3>1. after = b
      BY <2>2 DEF AfterDelivery, after
    <3>2. /\ IsList(b) /\ Len(b) = Len(box) + 1
          /\ \A i \in 1..Len(box) : b[i] = box[i]
          /\ b[Len(box) + 1] = t.message
      BY ListAppended
    <3>3. DOMAIN b = 1..(Len(box) + 1)
      BY <3>2, ListProperties
    <3> HIDE DEF b, t
    <3>4. A = {i \in 1..(Len(box) + 1) : Hit(b[i])}
      BY <3>1, <3>3 DEF Given
    <3>5. \A i : i \in 1..(Len(box) + 1) <=> i \in 1..Len(box) \/ i = Len(box) + 1
      BY <1>2
    <3>6. Len(box) + 1 \notin 1..Len(box)
      BY <1>2
    <3> HIDE DEF A, Hit
    <3>7. \A i : i \in A <=> (i \in 1..Len(box) /\ Hit(box[i])) \/ (i = Len(box) + 1 /\ Hit(t.message))
      BY <3>2, <3>4, <3>5, <3>6
    <3>8. \A i : i \in A <=> i \in B \/ (i = Len(box) + 1 /\ Hit(t.message))
      BY <3>7, <1>3
    <3>9. Len(box) + 1 \notin B
      BY <3>6, <1>3
    <3> QED BY <2>2, <3>8, <3>9
  <2> QED BY <2>1, <2>2
<1> HIDE DEF A, t, Hit
<1>6. (Q = {} /\ B = {}) <=> (R = {} /\ A = {})
  <2>1. Q = {} => R = {} /\ 1 \notin Q
    BY <1>4
  <2>2. R = {} /\ 1 \notin Q => Q = {}
    BY <1>4
  <2> QED BY <2>1, <2>2, <1>4, <1>5
<1>7. ASSUME NEW i, Q = {i}, B = {}
      PROVE  (R = {} /\ \E k : A = {k}) \/ (A = {} /\ \E k : R = {k})
  <2>1. CASE i = 1
    <3>1. A = {Len(box) + 1}
      BY <2>1, <1>4, <1>5, <1>7
    <3>2. R = {}
      <4> SUFFICES ASSUME NEW k \in R PROVE FALSE
        OBVIOUS
      <4>1. k + 1 = 1 /\ k \in Nat /\ k >= 1
        BY <1>4, <1>7, <2>1
      <4> QED BY <4>1
    <3> QED BY <3>1, <3>2
  <2>2. CASE i # 1
    <3>1. A = {}
      BY <2>2, <1>4, <1>5, <1>7
    <3>2. i - 1 \in R
      BY <2>2, <1>4, <1>7
    <3>3. \A k \in R : k = i - 1
      <4> SUFFICES ASSUME NEW k \in R PROVE k = i - 1
        OBVIOUS
      <4>1. k + 1 = i /\ k \in Nat /\ i \in Nat
        BY <1>4, <1>7
      <4> QED BY <4>1
    <3>4. R = {i - 1}
      BY <3>2, <3>3
    <3> QED BY <3>1, <3>4
  <2> QED BY <2>1, <2>2
<1>8. ASSUME NEW i, B = {i}, Q = {} PROVE A = {i} /\ R = {}
  <2>1. ~(t.ws = ws /\ Hit(t.message))
    BY <1>4, <1>8
  <2> QED BY <2>1, <1>4, <1>5, <1>8
<1>9. NothingSaid(q, box, ws, n, T) <=> NothingSaid(r, after, ws, n, T)
  BY <1>6 DEF NothingSaid, Q, R, A, B
<1>10. SaidOnce(q, box, ws, n, T) => SaidOnce(r, after, ws, n, T)
  <2>1. SaidOnce(q, box, ws, n, T) <=> ((\E i : B = {i}) /\ Q = {}) \/ (B = {} /\ \E i : Q = {i})
    BY DEF SaidOnce, IsSingle, Q, B
  <2>2. SaidOnce(r, after, ws, n, T) <=> ((\E i : A = {i}) /\ R = {}) \/ (A = {} /\ \E i : R = {i})
    BY DEF SaidOnce, IsSingle, R, A
  <2> QED BY <2>1, <2>2, <1>7, <1>8
<1> QED BY <1>9, <1>10 DEF r, after

-----------------------------------------------------------------------------
(***************************************************************************)
(* What a step puts in the queue.                                          *)
(***************************************************************************)

\* Messages that carry k, or are broadcast or noticed by the test. An event is
\* broadcast to subscriptions that have a filter it matches.
IsSpeech(t, k) ==
  /\ IsList(t)
  /\ \A i \in DOMAIN t :
       /\ t[i].ws \in Sockets
       /\ t[i].message.type \in MessageTypes
       /\ t[i].message.n \in {0, k}
       /\ t[i].message.type = "EVENT" /\ t[i].message.n = 0 =>
            \E key \in DOMAIN subscriptions :
              /\ key[1] = t[i].ws /\ key[2] = t[i].message.subId
              /\ MatchesOne(t[i].message.event, subscriptions[key])

\* What is queued does not answer message k.
SaysNothing(t, k) ==
  \A ws : Due(t, ws, k, AnswerTypes) = {} /\ Due(t, ws, k, {"NOTICE"}) = {}

\* What is queued answers message k once, and not by a NOTICE.
SaysOnce(t, ws, k) ==
  IsSingle(Due(t, ws, k, AnswerTypes)) /\ Due(t, ws, k, {"NOTICE"}) = {}

\* What is queued answers message k once, by a NOTICE.
Notices(t, ws, k) ==
  IsSingle(Due(t, ws, k, AnswerTypes)) /\ Due(t, ws, k, {"NOTICE"}) # {}

\* A message for a socket.
Task(ws, message) == [ws |-> ws, message |-> message]

\* The empty list and the list of one, as lists.
LEMMA ShortLists ==
  /\ IsList(<<>>) /\ Len(<<>>) = 0 /\ DOMAIN <<>> = {}
  /\ \A x : IsList(<<x>>) /\ Len(<<x>>) = 1 /\ DOMAIN <<x>> = {1} /\ <<x>>[1] = x
<1>1. <<>> \in Seq({}) /\ Len(<<>>) = 0 /\ DOMAIN <<>> = {}
  OBVIOUS
<1>2. ASSUME NEW x
      PROVE  <<x>> \in Seq({x}) /\ Len(<<x>>) = 1 /\ DOMAIN <<x>> = {1} /\ <<x>>[1] = x
  OBVIOUS
<1> QED BY <1>1, <1>2, SeqIsList

\* Appending is concatenating a list of one; nothing is queued by concatenating none.
LEMMA AppendAsConcat ==
  ASSUME NEW q, IsList(q)
  PROVE  /\ \A x : Append(q, x) = q \o <<x>>
         /\ q \o <<>> = q
<1>1. ASSUME NEW x PROVE Append(q, x) = q \o <<x>>
  <2> DEFINE a == Append(q, x)
             one == <<x>>
             b == q \o one
  <2>1. IsList(one) /\ Len(one) = 1 /\ one[1] = x
    BY ShortLists
  <2>2. IsList(a) /\ Len(a) = Len(q) + 1 /\ (\A i \in 1..Len(q) : a[i] = q[i]) /\ a[Len(q) + 1] = x
    BY ListAppended
  <2> HIDE DEF one
  <2>3. IsList(b) /\ Len(b) = Len(q) + 1 /\ (\A i \in 1..Len(q) : b[i] = q[i]) /\ b[Len(q) + 1] = x
    <3>1. /\ IsList(b) /\ Len(b) = Len(q) + Len(one)
          /\ \A i \in 1..Len(q) : b[i] = q[i]
          /\ \A i \in 1..Len(one) : b[Len(q) + i] = one[i]
      <4>1. IsList(q) /\ IsList(one)
        BY <2>1
      <4> QED BY ONLY <4>1, ListConcat
    <3>2. 1 \in 1..Len(one)
      BY <2>1
    <3> HIDE DEF b
    <3> QED BY <3>1, <3>2, <2>1
  <2> HIDE DEF a, b
  <2>4. Len(q) \in Nat
    BY ListProperties
  <2>5. \A i \in 1..(Len(q) + 1) : a[i] = b[i]
    <3> SUFFICES ASSUME NEW i \in 1..(Len(q) + 1) PROVE a[i] = b[i]
      OBVIOUS
    <3>1. i \in 1..Len(q) \/ i = Len(q) + 1
      BY <2>4
    <3> QED BY <3>1, <2>2, <2>3
  <2>6. a = [i \in 1..(Len(q) + 1) |-> a[i]] /\ b = [i \in 1..(Len(q) + 1) |-> b[i]]
    <3>1. a = [i \in 1..Len(a) |-> a[i]] /\ b = [i \in 1..Len(b) |-> b[i]]
      BY <2>2, <2>3, ListProperties
    <3> QED BY <3>1, <2>2, <2>3
  <2> QED BY <2>5, <2>6 DEF a, b, one
<1>2. q \o <<>> = q
  <2>1. q \in Seq({q[i] : i \in DOMAIN q})
    BY DEF IsList
  <2> QED BY <2>1, ConcatEmptySeq
<1> QED BY <1>1, <1>2

\* One message.
LEMMA OneIsSaid ==
  ASSUME NEW ws \in Sockets, NEW m, m.type \in AnswerTypes, NEW k, m.n = k
  PROVE  LET t == <<Task(ws, m)>>
         IN /\ IsSpeech(t, k)
            /\ m.type # "NOTICE" => SaysOnce(t, ws, k)
            /\ m.type = "NOTICE" => Notices(t, ws, k)
<1> DEFINE t == <<Task(ws, m)>>
<1>1. IsList(t) /\ DOMAIN t = {1} /\ t[1] = Task(ws, m)
  BY ShortLists
<1>2. Task(ws, m).ws = ws /\ Task(ws, m).message = m
  BY DEF Task
<1> HIDE DEF t
<1>3. t[1].ws = ws /\ t[1].message = m
  BY <1>1, <1>2
<1>4. m.type \in MessageTypes /\ m.type # "EVENT"
  BY DEF AnswerTypes, MessageTypes
<1>5. IsSpeech(t, k)
  BY <1>1, <1>3, <1>4 DEF IsSpeech
<1>6. Due(t, ws, k, AnswerTypes) = {1}
  BY <1>1, <1>3 DEF Due
<1>7. Due(t, ws, k, {"NOTICE"}) = IF m.type = "NOTICE" THEN {1} ELSE {}
  BY <1>1, <1>3 DEF Due
<1> QED BY <1>5, <1>6, <1>7 DEF SaysOnce, Notices, IsSingle, t

\* No message.
LEMMA NoneIsSaid ==
  ASSUME NEW k
  PROVE  IsSpeech(<<>>, k) /\ SaysNothing(<<>>, k)
  BY ShortLists DEF IsSpeech, SaysNothing, Due

\* One message after others that answer nothing.
LEMMA SaidAfterOthers ==
  ASSUME NEW s, NEW t, NEW k, IsSpeech(s, k), SaysNothing(s, k), IsSpeech(t, k)
  PROVE  /\ IsSpeech(s \o t, k)
         /\ \A ws : SaysOnce(t, ws, k) => SaysOnce(s \o t, ws, k)
         /\ \A ws : Notices(t, ws, k) => Notices(s \o t, ws, k)
<1> DEFINE u == s \o t
<1>1. IsList(s) /\ IsList(t)
  BY DEF IsSpeech
<1>2. /\ IsList(u) /\ Len(u) = Len(s) + Len(t)
      /\ \A i \in 1..Len(s) : u[i] = s[i]
      /\ \A i \in 1..Len(t) : u[Len(s) + i] = t[i]
  BY <1>1, ListConcat
<1>3. /\ DOMAIN s = 1..Len(s) /\ DOMAIN t = 1..Len(t) /\ DOMAIN u = 1..Len(u)
      /\ Len(s) \in Nat /\ Len(t) \in Nat
  BY <1>1, <1>2, ListProperties
<1> HIDE DEF u
<1>4. \A i \in DOMAIN u : (\E j \in DOMAIN s : u[i] = s[j]) \/ (\E j \in DOMAIN t : u[i] = t[j])
  <2> SUFFICES ASSUME NEW i \in 1..Len(u)
               PROVE  (\E j \in 1..Len(s) : u[i] = s[j]) \/ (\E j \in 1..Len(t) : u[i] = t[j])
    BY <1>3
  <2>1. i \in 1..Len(s) \/ (i - Len(s) \in 1..Len(t) /\ Len(s) + (i - Len(s)) = i)
    BY <1>2, <1>3
  <2> QED BY <2>1, <1>2
<1>5. IsSpeech(u, k)
  <2> DEFINE Said(x) == /\ x.ws \in Sockets
                        /\ x.message.type \in MessageTypes
                        /\ x.message.n \in {0, k}
                        /\ x.message.type = "EVENT" /\ x.message.n = 0 =>
                             \E key \in DOMAIN subscriptions :
                               /\ key[1] = x.ws /\ key[2] = x.message.subId
                               /\ MatchesOne(x.message.event, subscriptions[key])
  <2>1. (\A i \in DOMAIN s : Said(s[i])) /\ (\A i \in DOMAIN t : Said(t[i]))
    BY DEF IsSpeech
  <2>2. IsSpeech(u, k) <=> IsList(u) /\ \A i \in DOMAIN u : Said(u[i])
    BY DEF IsSpeech
  <2> HIDE DEF Said
  <2> QED BY <2>1, <2>2, <1>2, <1>4
<1>6. ASSUME NEW ws
      PROVE  /\ IsSingle(Due(t, ws, k, AnswerTypes)) => IsSingle(Due(u, ws, k, AnswerTypes))
             /\ Due(t, ws, k, {"NOTICE"}) = {} => Due(u, ws, k, {"NOTICE"}) = {}
             /\ Due(t, ws, k, {"NOTICE"}) # {} => Due(u, ws, k, {"NOTICE"}) # {}
  <2>1. Due(s, ws, k, AnswerTypes) = {} /\ Due(s, ws, k, {"NOTICE"}) = {}
    BY DEF SaysNothing
  <2>2. IsSingle(Due(t, ws, k, AnswerTypes)) => IsSingle(Due(u, ws, k, AnswerTypes))
    <3>1. Due(s, ws, k, AnswerTypes) = {} /\ IsSingle(Due(t, ws, k, AnswerTypes)) =>
            IsSingle(Due(s \o t, ws, k, AnswerTypes))
      BY <1>1, DueGrows
    <3> QED BY <2>1, <3>1 DEF u
  <2>3. Due(t, ws, k, {"NOTICE"}) = {} => Due(u, ws, k, {"NOTICE"}) = {}
    BY <1>1, <2>1, DueGrows DEF u
  <2>4. Due(t, ws, k, {"NOTICE"}) # {} => Due(u, ws, k, {"NOTICE"}) # {}
    BY <1>1, DueGrows DEF u
  <2> QED BY <2>2, <2>3, <2>4
<1> QED BY <1>5, <1>6 DEF SaysOnce, Notices, u

\* The lists SetToSeqs gives of a finite set.
LEMMA OrdersAreLists ==
  ASSUME NEW S, IsFiniteSet(S), NEW order \in SetToSeqs(S)
  PROVE  /\ IsList(order)
         /\ \A i \in DOMAIN order : order[i] \in S
<1>1. Cardinality(S) \in Nat /\ order \in [1..Cardinality(S) -> S]
  BY FS_CardinalityType DEF SetToSeqs
<1>2. order = [i \in 1..Cardinality(S) |-> order[i]]
  BY <1>1
<1> QED BY <1>1, <1>2, ListMade

\* A broadcast tells subscriptions, and answers nobody.
LEMMA BroadcastIsSaid ==
  ASSUME NEW e, NEW tasks \in Broadcasts(e), NEW k,
         IsFiniteSet(DOMAIN subscriptions), \A key \in DOMAIN subscriptions : key[1] \in Sockets
  PROVE  IsSpeech(tasks, k) /\ SaysNothing(tasks, k)
<1> DEFINE S == MatchingSubscriptions(e)
           At(order, i) == [ws |-> order[i][1], message |-> EventMessage(order[i][2], e, 0)]
<1>1. PICK order \in SetToSeqs(S) : tasks = [i \in DOMAIN order |-> At(order, i)]
  BY DEF Broadcasts
<1>2. S \subseteq DOMAIN subscriptions /\ \A key \in S : MatchesOne(e, subscriptions[key])
  BY DEF MatchingSubscriptions
<1>3. IsFiniteSet(S)
  BY <1>2, FS_Subset
<1> HIDE DEF S
<1>4. IsList(order) /\ \A i \in DOMAIN order : order[i] \in S
  BY <1>3, OrdersAreLists
<1>5. DOMAIN order = 1..Len(order) /\ Len(order) \in Nat
  BY <1>4, ListProperties
<1>6. /\ DOMAIN tasks = DOMAIN order
      /\ \A i \in DOMAIN tasks : /\ tasks[i].ws = order[i][1]
                                 /\ tasks[i].message.type = "EVENT"
                                 /\ tasks[i].message.subId = order[i][2]
                                 /\ tasks[i].message.event = e
                                 /\ tasks[i].message.n = 0
  BY <1>1 DEF EventMessage
<1>7. IsList(tasks)
  <2>1. tasks = [i \in 1..Len(order) |-> tasks[i]]
    BY <1>1, <1>5
  <2> QED BY <2>1, <1>5, ListMade
<1>8. IsSpeech(tasks, k)
  BY <1>2, <1>4, <1>6, <1>7 DEF IsSpeech, MessageTypes
<1>9. SaysNothing(tasks, k)
  BY <1>6 DEF SaysNothing, Due, AnswerTypes
<1> QED BY <1>8, <1>9

\* The stored events of a REQ, and EOSE at their end.
LEMMA EventsAreSaid ==
  ASSUME NEW ws \in Sockets, NEW subId, NEW es, IsList(es), NEW k \in Nat \ {0},
         SendEvents(ws, subId, es, k)
  PROVE  \E t : queue' = queue \o t /\ IsSpeech(t, k) /\ SaysOnce(t, ws, k)
<1> DEFINE found == [i \in DOMAIN es |-> EventMessage(subId, es[i], k)]
           one == <<Eose(subId, k)>>
           all == found \o one
           t == Tasks(ws, all)
           m == Len(es)
<1>1. queue' = queue \o t
  BY DEF SendEvents
<1>2. m \in Nat /\ DOMAIN es = 1..m
  BY ListProperties
<1>3. /\ IsList(found) /\ Len(found) = m
      /\ \A i \in 1..m : found[i].type = "EVENT" /\ found[i].n = k
  <2>1. found = [i \in 1..m |-> EventMessage(subId, es[i], k)]
    BY <1>2
  <2>2. \A i \in 1..m : found[i] = EventMessage(subId, es[i], k)
    BY <2>1
  <2>3. found = [i \in 1..m |-> found[i]]
    BY <2>1
  <2> HIDE DEF found, m
  <2>4. IsList(found) /\ Len(found) = m
    BY <2>3, <1>2, ListMade
  <2> QED BY <2>2, <2>4 DEF EventMessage
<1>4. IsList(one) /\ Len(one) = 1 /\ one[1] = Eose(subId, k)
  BY ShortLists
<1> HIDE DEF found, one, m
<1>5. /\ IsList(all) /\ Len(all) = m + 1
      /\ \A i \in 1..m : all[i] = found[i]
      /\ all[m + 1] = Eose(subId, k)
  <2> HIDE DEF t, all
  <2>1. /\ IsList(found \o one) /\ Len(found \o one) = Len(found) + Len(one)
        /\ \A i \in 1..Len(found) : (found \o one)[i] = found[i]
        /\ \A i \in 1..Len(one) : (found \o one)[Len(found) + i] = one[i]
    <3>1. IsList(found) /\ IsList(one)
      BY <1>3, <1>4
    <3> QED BY ONLY <3>1, ListConcat
  <2>2. 1 \in 1..Len(one)
    BY <1>4
  <2>3. all = found \o one
    BY DEF all
  <2> QED BY <2>1, <2>2, <2>3, <1>3, <1>4
<1> HIDE DEF all
<1>6. DOMAIN all = 1..(m + 1)
  BY <1>5, ListProperties
<1>7. /\ t = [i \in 1..(m + 1) |-> t[i]]
      /\ \A i \in 1..(m + 1) : t[i].ws = ws /\ t[i].message = all[i]
  BY <1>6 DEF Tasks
<1>8. IsList(t) /\ DOMAIN t = 1..(m + 1)
  <2> HIDE DEF t
  <2>1. m + 1 \in Nat
    BY <1>2
  <2>2. IsList(t) /\ Len(t) = m + 1
    BY <2>1, <1>7, ListMade
  <2> QED BY <2>2, ListProperties
<1> HIDE DEF t
<1>9. /\ \A i \in 1..m : t[i].message.type = "EVENT" /\ t[i].message.n = k
      /\ t[m + 1].message.type = "EOSE" /\ t[m + 1].message.n = k
  <2>1. \A i \in 1..m : i \in 1..(m + 1)
    BY <1>2
  <2>2. m + 1 \in 1..(m + 1)
    BY <1>2
  <2>3. Eose(subId, k).type = "EOSE" /\ Eose(subId, k).n = k
    BY DEF Eose
  <2> QED BY <2>1, <2>2, <2>3, <1>3, <1>5, <1>7
<1>10. \A i \in 1..(m + 1) : i \in 1..m \/ i = m + 1
  BY <1>2
<1>11. IsSpeech(t, k)
  <2>1. \A i \in 1..(m + 1) : /\ t[i].ws \in Sockets /\ t[i].message.type \in MessageTypes
                              /\ t[i].message.n = k
    BY <1>7, <1>9, <1>10 DEF MessageTypes
  <2> QED BY <2>1, <1>8 DEF IsSpeech
<1>12. SaysOnce(t, ws, k)
  <2>1. m + 1 \in 1..(m + 1)
    BY <1>2
  <2>2. Due(t, ws, k, AnswerTypes) = {m + 1}
    BY <2>1, <1>7, <1>8, <1>9, <1>10 DEF Due, AnswerTypes
  <2>3. Due(t, ws, k, {"NOTICE"}) = {}
    BY <1>8, <1>9, <1>10 DEF Due
  <2> QED BY <2>2, <2>3 DEF SaysOnce, IsSingle
<1> QED BY <1>1, <1>11, <1>12

-----------------------------------------------------------------------------
(***************************************************************************)
(* The invariant.                                                          *)
(***************************************************************************)

\* The handlings of message n.
CallsOf(cs, n) == {call \in cs : call.n = n}

\* A message is answered, being handled, or one of those that get no answer.
Accounted(q, box, ws, n, cs, qt) ==
  \/ SaidOnce(q, box, ws, n, AnswerTypes) /\ CallsOf(cs, n) = {} /\ n \notin qt
  \/ NothingSaid(q, box, ws, n, AnswerTypes) /\ IsSingle(CallsOf(cs, n)) /\ n \notin qt
  \/ NothingSaid(q, box, ws, n, AnswerTypes) /\ CallsOf(cs, n) = {} /\ n \in qt

\* Asked, told from the messages sent, the queue and what the client has been given.
AsksFor(raw, subId) ==
  /\ Type(raw) \in {"REQ", "CLOSE"}
  /\ Len(raw.items) >= 2 /\ IsString(raw.items[2])
  /\ SubId(raw) = subId

\* The messages of ws, after the last reset, that asked about subId and got no NOTICE.
AskedIn(s, from, q, box, ws, subId) ==
  {n \in (from + 1)..Len(s) :
     s[n].ws = ws /\ AsksFor(s[n].raw, subId) /\ NothingSaid(q, box, ws, n, {"NOTICE"})}

\* The latest message of those that asked is a REQ with these filters.
AskedLast(asked, s, filters) ==
  \E last \in asked :
    /\ \A n \in asked : n <= last
    /\ Type(s[last].raw) = "REQ"
    /\ FiltersOf(s[last].raw) = filters

\* A message of the protocol, for one of the first m messages or for none.
IsNumbered(message, m) == message.n \in 0..m /\ message.type \in MessageTypes

\* The parts of the state that carry numbers of messages carry those that were sent.
RelayShape ==
  /\ sockets \in [Sockets -> {"OPEN", "CLOSING", "CLOSED"}]
  /\ IsFiniteSet(DOMAIN subscriptions)
  /\ \A key \in DOMAIN subscriptions : key = <<key[1], key[2]>> /\ key[1] \in Sockets
  /\ info \in Limitations \cup {None} /\ archive.info \in Limitations \cup {None}
  /\ IsList(sent)
  /\ \A n \in DOMAIN sent : sent[n].ws \in Sockets /\ sent[n].raw \in RawMessages[sent[n].ws]
  /\ resetAt \in 0..Len(sent)
  /\ quiet \subseteq DOMAIN sent
  /\ \A call \in calls :
       /\ call.n \in DOMAIN sent
       /\ call.stage = "verify" => EventOf(RawOf(call)) \in Events
       /\ call.stage = "count" => Type(RawOf(call)) = "COUNT"
  /\ IsList(queue)
  /\ \A i \in DOMAIN queue : queue[i].ws \in Sockets /\ IsNumbered(queue[i].message, Len(sent))
  /\ DOMAIN inbox = Sockets
  /\ \A ws \in Sockets : /\ IsList(inbox[ws])
                         /\ \A i \in DOMAIN inbox[ws] : IsNumbered(inbox[ws][i], Len(sent))

\* AnsweredOnce, told from the lists.
AllAccounted ==
  \A n \in DOMAIN sent :
    sockets[sent[n].ws] = "OPEN" =>
      Accounted(queue, inbox[sent[n].ws], sent[n].ws, n, calls, quiet)

\* A subscription is what the latest message about it that got no NOTICE asked for.
AllWanted ==
  \A key \in DOMAIN subscriptions :
    sockets[key[1]] = "OPEN" =>
      AskedLast(AskedIn(sent, resetAt, queue, inbox[key[1]], key[1], key[2]), sent,
                subscriptions[key])

\* Together with the invariant of the store.
RelayInv ==
  StoreInv /\ RelayShape /\ SubscriptionsAreConnected /\ AllAccounted /\ AllWanted

-----------------------------------------------------------------------------
(***************************************************************************)
(* What becomes of a message when a step speaks.                           *)
(***************************************************************************)

\* A step that speaks of message k changes nothing for the others.
LEMMA OthersAreSilent ==
  ASSUME NEW q, IsList(q), NEW t, NEW k, IsSpeech(t, k), NEW box, NEW ws, NEW n, n # 0,
         n # k \/ SaysNothing(t, k), NEW T, T = AnswerTypes \/ T = {"NOTICE"}
  PROVE  /\ NothingSaid(q \o t, box, ws, n, T) <=> NothingSaid(q, box, ws, n, T)
         /\ SaidOnce(q \o t, box, ws, n, T) <=> SaidOnce(q, box, ws, n, T)
<1>1. IsList(t)
  BY DEF IsSpeech
<1>2. Due(t, ws, n, T) = {}
  <2>1. CASE n # k
    BY <2>1 DEF IsSpeech, Due
  <2>2. CASE n = k
    BY <2>2 DEF SaysNothing
  <2> QED BY <2>1, <2>2
<1>3. Due(q \o t, ws, n, T) = Due(q, ws, n, T)
  BY <1>1, <1>2, DueGrows
<1> QED BY <1>3 DEF NothingSaid, SaidOnce

\* A message of which nothing has been said is answered by a step that answers once.
LEMMA AnswerIsSaid ==
  ASSUME NEW q, IsList(q), NEW t, NEW k, IsSpeech(t, k), NEW box, NEW ws,
         NothingSaid(q, box, ws, k, AnswerTypes)
  PROVE  /\ SaysOnce(t, ws, k) \/ Notices(t, ws, k) => SaidOnce(q \o t, box, ws, k, AnswerTypes)
         /\ SaysOnce(t, ws, k) =>
              (NothingSaid(q \o t, box, ws, k, {"NOTICE"}) <=> NothingSaid(q, box, ws, k, {"NOTICE"}))
         /\ Notices(t, ws, k) => ~NothingSaid(q \o t, box, ws, k, {"NOTICE"})
<1>1. IsList(t)
  BY DEF IsSpeech
<1>2. Given(box, k, AnswerTypes) = {} /\ Due(q, ws, k, AnswerTypes) = {}
  BY DEF NothingSaid
<1>3. SaysOnce(t, ws, k) \/ Notices(t, ws, k) => IsSingle(Due(t, ws, k, AnswerTypes))
  BY DEF SaysOnce, Notices
<1>4. IsSingle(Due(t, ws, k, AnswerTypes)) => IsSingle(Due(q \o t, ws, k, AnswerTypes))
  BY <1>1, <1>2, DueGrows
<1>5. SaysOnce(t, ws, k) => Due(q \o t, ws, k, {"NOTICE"}) = Due(q, ws, k, {"NOTICE"})
  <2>1. Due(t, ws, k, {"NOTICE"}) = {} => Due(q \o t, ws, k, {"NOTICE"}) = Due(q, ws, k, {"NOTICE"})
    BY <1>1, DueGrows
  <2> QED BY <2>1 DEF SaysOnce
<1>6. Notices(t, ws, k) => Due(q \o t, ws, k, {"NOTICE"}) # {}
  <2>1. Due(t, ws, k, {"NOTICE"}) # {} => Due(q \o t, ws, k, {"NOTICE"}) # {}
    BY <1>1, DueGrows
  <2> QED BY <2>1 DEF Notices
<1> QED BY <1>2, <1>3, <1>4, <1>5, <1>6 DEF NothingSaid, SaidOnce

\* What a step makes of the message k it handles: an answer, a call, or nothing.
Fate(ws, k, t, others) ==
  \/ /\ calls' = others /\ quiet' = quiet
     /\ SaysOnce(t, ws, k) \/ Notices(t, ws, k)
  \/ /\ \E stage : calls' = others \cup {[n |-> k, stage |-> stage]}
     /\ quiet' = quiet /\ SaysNothing(t, k)
  \/ /\ calls' = others /\ quiet' = quiet \cup {k} /\ SaysNothing(t, k)

\* A message of which nothing has been said is accounted for by its fate.
LEMMA FateIsAccounted ==
  ASSUME NEW q, IsList(q), NEW t, NEW k, k # 0, IsSpeech(t, k), NEW ws, NEW others,
         Fate(ws, k, t, others), NEW box, NothingSaid(q, box, ws, k, AnswerTypes),
         CallsOf(others, k) = {}, k \notin quiet
  PROVE  Accounted(q \o t, box, ws, k, calls', quiet')
<1>1. CASE /\ calls' = others /\ quiet' = quiet
           /\ SaysOnce(t, ws, k) \/ Notices(t, ws, k)
  <2>1. SaidOnce(q \o t, box, ws, k, AnswerTypes)
    BY <1>1, AnswerIsSaid
  <2> QED BY <1>1, <2>1 DEF Accounted
<1>2. ASSUME SaysNothing(t, k) PROVE NothingSaid(q \o t, box, ws, k, AnswerTypes)
  BY <1>2, OthersAreSilent
<1>3. CASE /\ \E stage : calls' = others \cup {[n |-> k, stage |-> stage]}
           /\ quiet' = quiet /\ SaysNothing(t, k)
  <2>1. PICK stage : calls' = others \cup {[n |-> k, stage |-> stage]}
    BY <1>3
  <2>2. CallsOf(calls', k) = {[n |-> k, stage |-> stage]}
    BY <2>1 DEF CallsOf
  <2>3. IsSingle(CallsOf(calls', k))
    BY <2>2 DEF IsSingle
  <2>4. NothingSaid(q \o t, box, ws, k, AnswerTypes)
    BY <1>2, <1>3
  <2> QED BY <1>3, <2>3, <2>4 DEF Accounted
<1>4. CASE calls' = others /\ quiet' = quiet \cup {k} /\ SaysNothing(t, k)
  <2>1. NothingSaid(q \o t, box, ws, k, AnswerTypes)
    BY <1>2, <1>4
  <2> QED BY <1>4, <2>1 DEF Accounted
<1> QED BY <1>1, <1>3, <1>4 DEF Fate

\* A step that speaks of message k leaves the others accounted for.
LEMMA OthersAreAccounted ==
  ASSUME NEW q, IsList(q), NEW t, NEW k, IsSpeech(t, k), NEW n, n # 0, n # k, NEW box, NEW ws,
         NEW cs, NEW ds, CallsOf(ds, n) = CallsOf(cs, n), NEW qt, NEW pt, n \in pt <=> n \in qt,
         Accounted(q, box, ws, n, cs, qt)
  PROVE  Accounted(q \o t, box, ws, n, ds, pt)
<1>1. /\ NothingSaid(q \o t, box, ws, n, AnswerTypes) <=> NothingSaid(q, box, ws, n, AnswerTypes)
      /\ SaidOnce(q \o t, box, ws, n, AnswerTypes) <=> SaidOnce(q, box, ws, n, AnswerTypes)
  BY OthersAreSilent
<1> QED BY <1>1 DEF Accounted

\* The invariant of the next state, in terms of the lists.
LEMMA NextAccounted ==
  AllAccounted' <=>
    \A n \in DOMAIN sent' :
      sockets'[sent'[n].ws] = "OPEN" =>
        Accounted(queue', inbox'[sent'[n].ws], sent'[n].ws, n, calls', quiet')
BY DEF AllAccounted, Accounted, SaidOnce, NothingSaid, Given, Due, IsSingle, CallsOf

\* Of the subscriptions, the same.
LEMMA NextWanted ==
  AllWanted' <=>
    \A key \in DOMAIN subscriptions' :
      sockets'[key[1]] = "OPEN" =>
        AskedLast(AskedIn(sent', resetAt', queue', inbox'[key[1]], key[1], key[2]), sent',
                  subscriptions'[key])
BY DEF AllWanted, AskedLast, AskedIn, NothingSaid, Given, Due, AsksFor, Type, SubId, FiltersOf, IsString

\* And of the numbers.
LEMMA NextShape ==
  RelayShape' <=>
  /\ sockets' \in [Sockets -> {"OPEN", "CLOSING", "CLOSED"}]
  /\ IsFiniteSet(DOMAIN subscriptions')
  /\ \A key \in DOMAIN subscriptions' : key = <<key[1], key[2]>> /\ key[1] \in Sockets
  /\ info' \in Limitations \cup {None} /\ archive'.info \in Limitations \cup {None}
  /\ IsList(sent')
  /\ \A n \in DOMAIN sent' : sent'[n].ws \in Sockets /\ sent'[n].raw \in RawMessages[sent'[n].ws]
  /\ resetAt' \in 0..Len(sent')
  /\ quiet' \subseteq DOMAIN sent'
  /\ \A call \in calls' :
       /\ call.n \in DOMAIN sent'
       /\ call.stage = "verify" => EventOf(sent'[call.n].raw) \in Events
       /\ call.stage = "count" => Type(sent'[call.n].raw) = "COUNT"
  /\ IsList(queue')
  /\ \A i \in DOMAIN queue' : queue'[i].ws \in Sockets /\ IsNumbered(queue'[i].message, Len(sent'))
  /\ DOMAIN inbox' = Sockets
  /\ \A ws \in Sockets : /\ IsList(inbox'[ws])
                         /\ \A i \in DOMAIN inbox'[ws] : IsNumbered(inbox'[ws][i], Len(sent'))
BY DEF RelayShape, RawOf, IsNumbered, IsList, EventOf, Type, IsString, None

-----------------------------------------------------------------------------
(***************************************************************************)
(* What is accepted can be handled.                                        *)
(***************************************************************************)

\* An accepted EVENT has an event, a REQ and a CLOSE have a subscription id, and the
\* filters of a REQ and a COUNT that compile are filters.
LEMMA AcceptedItems ==
  ASSUME RelayShape, NEW ws \in Sockets, NEW raw \in RawMessages[ws],
         ParseClientMessage(raw, info) = Accepted
  PROVE  /\ Type(raw) = "EVENT" => EventOf(raw) \in Events
         /\ Type(raw) \in {"REQ", "CLOSE"} => Len(raw.items) >= 2 /\ IsString(raw.items[2])
         /\ Type(raw) \in {"REQ", "COUNT"} /\ Compile(FiltersOf(raw)) =>
              AreFilters(Compiled(FiltersOf(raw)))
<1> DEFINE items == raw.items
<1>1. IsLimitation(info)
  <2>1. IsLimitation(None)
    BY DEF IsLimitation, None
  <2> QED BY <2>1, RelayAssumption DEF RelayShape
<1>2. IsRawMessage(raw)
  BY RelayAssumption
<1>3. Acceptable(raw, info)
  BY <1>1, <1>2, AcceptedIsAcceptable
<1>4. /\ items \in Seq({raw.items[i] : i \in DOMAIN raw.items})
      /\ Len(items) \in Nat /\ DOMAIN items = 1..Len(items)
  BY <1>2, LenProperties DEF IsRawMessage
<1>5. items # <<>> => Head(items) = items[1]
  <2> HIDE DEF items
  <2> QED BY <1>4, HeadTailProperties
<1>6. /\ Type(raw) = "EVENT" => HasEvent(items, info)
      /\ Type(raw) \in {"REQ", "CLOSE", "COUNT"} => HasSubId(items, info)
      /\ Type(raw) \in {"REQ", "COUNT"} => HasFilters(items, info)
  BY <1>3, <1>5 DEF Acceptable, Type, IsString
<1>7. Type(raw) = "EVENT" => EventOf(raw) \in Events
  <2>1. HasEvent(items, info) => Len(items) >= 2 /\ IsEventShape(items[2])
    BY <1>1, <1>2, EventsAreChecked
  <2>2. Len(items) >= 2 => 2 \in DOMAIN items
    BY <1>4
  <2> QED BY <1>6, <2>1, <2>2, RelayAssumption DEF EventOf
<1>8. Type(raw) \in {"REQ", "CLOSE"} => Len(items) >= 2 /\ IsString(items[2])
  BY <1>1, <1>2, <1>6, SubIdsAreChecked
<1>9. ASSUME HasFilters(items, info), Compile(FiltersOf(raw))
      PROVE  AreFilters(Compiled(FiltersOf(raw)))
  <2> DEFINE fs == FiltersOf(raw)
             m == Len(items) - 2
  <2>1. m \in Nat /\ Len(items) >= 3 /\ Len(items) \in Nat
    <3>1. Len(items) \in 3..34
      BY <1>9 DEF HasFilters
    <3> HIDE DEF items
    <3> QED BY <3>1, <1>4
  <2>2. /\ IsList(fs) /\ Len(fs) = m
        /\ \A i \in 1..m : fs[i] = items[i + 2]
    <3> DEFINE S == {items[i] : i \in DOMAIN items}
               n == Len(items)
               sub == SubSeq(items, 3, n)
    <3>1. \A i \in 3..n : items[i] \in S
      BY <1>4
    <3> HIDE DEF items, S
    <3>2. /\ SubSeq(items, 3, n) \in Seq(S)
          /\ Len(SubSeq(items, 3, n)) = IF 3 <= n THEN n - 3 + 1 ELSE 0
          /\ \A i \in 1..(n - 3 + 1) : SubSeq(items, 3, n)[i] = items[3 + i - 1]
      BY <3>1, <2>1, SubSeqProperties
    <3>3. IsList(sub)
      BY <3>2, SeqIsList
    <3>4. fs = sub
      BY DEF FiltersOf, items
    <3> HIDE DEF fs, sub
    <3>5. Len(sub) = m /\ \A i \in 1..m : sub[i] = items[i + 2]
      <4>1. n - 3 + 1 = m /\ \A i \in 1..m : 3 + i - 1 = i + 2
        BY <2>1
      <4> QED BY <4>1, <3>2, <2>1 DEF sub
    <3> QED BY <3>3, <3>4, <3>5
  <2> HIDE DEF fs
  <2>3. DOMAIN fs = 1..m /\ \A i \in 1..m : fs[i] = items[i + 2]
    BY <2>2, ListProperties
  <2>4. ASSUME NEW i \in 1..m PROVE IsFilter(fs[i].filter)
    <3>1. i + 2 \in 3..Len(items) /\ i + 2 \in DOMAIN items /\ i + 2 > 2
      BY <1>4, <2>1
    <3>2. IsFilterShape(items[i + 2])
      BY <3>1, <1>9 DEF HasFilters, IsFilterShape
    <3>3. raw.items[i + 2].compiles \in BOOLEAN /\ (raw.items[i + 2].compiles => IsFilter(raw.items[i + 2].filter))
      BY <3>1, <3>2, RelayAssumption
    <3>4. fs[i].compiles
      BY <2>3, <1>9 DEF Compile, fs
    <3> QED BY <2>3, <3>3, <3>4
  <2>5. Compiled(fs) = [i \in 1..m |-> fs[i].filter]
    BY <2>3 DEF Compiled
  <2>6. IsList(Compiled(fs)) /\ DOMAIN Compiled(fs) = 1..m
    <3>1. Compiled(fs) = [i \in 1..m |-> Compiled(fs)[i]]
      BY <2>5
    <3>2. IsList(Compiled(fs)) /\ Len(Compiled(fs)) = m
      BY <3>1, <2>1, ListMade
    <3> QED BY <3>2, ListProperties
  <2> QED BY <2>4, <2>5, <2>6 DEF AreFilters, fs
<1> QED BY <1>6, <1>7, <1>8, <1>9

-----------------------------------------------------------------------------
(***************************************************************************)
(* The relay uses the store through the store's operations.                *)
(***************************************************************************)

\* Handling an EVENT is publishing it, or awaits a handler.
LEMMA HandlingPublishes ==
  ASSUME NEW ws, NEW n, NEW e \in Events, NEW others, HandleEvent(ws, n, e, others)
  PROVE  [Next]_vars
<1>1. Publish(e) \/ UNCHANGED vars
  BY DEF HandleEvent, PublishAndAnswer
<1> QED BY <1>1 DEF Next

\* So is whatever a message does as it arrives,
LEMMA ReceiveUsesStore ==
  ASSUME RelayShape, NEW ws \in Sockets, NEW raw \in RawMessages[ws], Receive(ws, raw)
  PROVE  [Next]_vars
<1>1. CASE RefuseMessage(ws, raw)
  BY <1>1 DEF RefuseMessage
<1>2. CASE DropConnection(ws, raw)
  BY <1>2 DEF DropConnection
<1>3. CASE SimulateError(ws, raw)
  BY <1>3 DEF SimulateError
<1>4. CASE ReceiveEvent(ws, raw)
  <2>1. UNCHANGED vars \/ HandleEvent(ws, N, EventOf(raw), calls)
    BY <1>4 DEF ReceiveEvent
  <2>2. EventOf(raw) \in Events
    BY <1>4, AcceptedItems DEF ReceiveEvent, Record
  <2> QED BY <2>1, <2>2, HandlingPublishes
<1>5. CASE ReceiveReq(ws, raw)
  BY <1>5 DEF ReceiveReq
<1>6. CASE ReceiveClose(ws, raw)
  BY <1>6 DEF ReceiveClose
<1>7. CASE ReceiveCount(ws, raw)
  BY <1>7 DEF ReceiveCount
<1>8. CASE ReceiveAuth(ws, raw)
  BY <1>8 DEF ReceiveAuth
<1>9. CASE RefuseType(ws, raw)
  BY <1>9 DEF RefuseType
<1> QED BY <1>1, <1>2, <1>3, <1>4, <1>5, <1>6, <1>7, <1>8, <1>9 DEF Receive

\* whatever its handling does after an await,
LEMMA SettleUsesStore ==
  ASSUME RelayShape, NEW call \in calls, Settle(call)
  PROVE  [Next]_vars
<1>1. CASE SignatureValid(call)
  <2>1. HandleEvent(WsOf(call), call.n, EventOf(RawOf(call)), calls \ {call})
    BY <1>1 DEF SignatureValid
  <2>2. EventOf(RawOf(call)) \in Events
    BY <1>1 DEF SignatureValid, RelayShape
  <2> QED BY <2>1, <2>2, HandlingPublishes
<1>2. CASE SignatureInvalid(call)
  BY <1>2 DEF SignatureInvalid
<1>3. CASE VerifierRejects(call)
  BY <1>3 DEF VerifierRejects
<1>4. CASE \E accepted \in BOOLEAN : EventHandled(call, accepted)
  BY <1>4 DEF EventHandled
<1>5. CASE \E result \in HandlerResults : ReqHandled(call, result)
  BY <1>5 DEF ReqHandled
<1>6. CASE CountHandled(call)
  BY <1>6 DEF CountHandled
<1>7. CASE AuthHandled(call)
  BY <1>7 DEF AuthHandled
<1>8. CASE HandlerThrows(call)
  BY <1>8 DEF HandlerThrows
<1> QED BY <1>1, <1>2, <1>3, <1>4, <1>5, <1>6, <1>7, <1>8 DEF Settle

\* and every call of the test.
LEMMA TestUsesStore == Test => [Next]_vars
<1> SUFFICES ASSUME Test PROVE [Next]_vars
  OBVIOUS
<1>1. CASE \E handler \in {Verifier, "event", "req", "count"} : SetHandler(handler)
  BY <1>1 DEF SetHandler
<1>2. CASE \E limitation \in Limitations : SetInfo(limitation)
  BY <1>2 DEF SetInfo
<1>3. CASE \E e \in Events : RelayStore(e)
  BY <1>3 DEF RelayStore, Next
<1>4. CASE \E e \in Events : Broadcast(e)
  BY <1>4 DEF Broadcast
<1>5. CASE SendNotice
  BY <1>5 DEF SendNotice
<1>6. CASE Disconnect
  BY <1>6 DEF Disconnect
<1>7. CASE RelaySnapshot
  BY <1>7 DEF RelaySnapshot, Next
<1>8. CASE RelayRestore
  BY <1>8 DEF RelayRestore, Next
<1>9. CASE RelayReset
  BY <1>9 DEF RelayReset, Next
<1> QED BY <1>1, <1>2, <1>3, <1>4, <1>5, <1>6, <1>7, <1>8, <1>9 DEF Test

\* Every step of the relay is one of the store, or leaves the store alone.
LEMMA RelayStepOfStore ==
  ASSUME RelayShape, [RelayNext]_relayVars
  PROVE  [Next]_vars
<1>1. ASSUME NEW ws \in Sockets, NEW raw \in RawMessages[ws], Receive(ws, raw)
      PROVE  [Next]_vars
  BY <1>1, ReceiveUsesStore
<1>2. ASSUME NEW ws \in Sockets, CloseSocket(ws) \/ FinishClose(ws)
      PROVE  [Next]_vars
  BY <1>2 DEF CloseSocket, FinishClose
<1>3. ASSUME NEW call \in calls, Settle(call)
      PROVE  [Next]_vars
  BY <1>3, SettleUsesStore
<1>4. CASE Deliver
  BY <1>4 DEF Deliver
<1>5. CASE Test
  BY <1>5, TestUsesStore
<1>6. CASE UNCHANGED relayVars
  BY <1>6 DEF relayVars
<1> QED BY <1>1, <1>2, <1>3, <1>4, <1>5, <1>6 DEF RelayNext

-----------------------------------------------------------------------------
(***************************************************************************)
(* What the steps say: nothing, or one answer, and broadcasts.             *)
(***************************************************************************)

\* One message, as a list.
LEMMA MessageIsSaid ==
  ASSUME IsList(queue), NEW ws \in Sockets, NEW m, m.type \in AnswerTypes, NEW k, m.n = k,
         SendMessage(ws, m)
  PROVE  \E t : /\ queue' = queue \o t /\ IsSpeech(t, k)
                /\ m.type # "NOTICE" => SaysOnce(t, ws, k)
                /\ m.type = "NOTICE" => Notices(t, ws, k)
<1> DEFINE t == <<Task(ws, m)>>
<1>1. queue' = queue \o t
  <2>1. queue' = Append(queue, Task(ws, m))
    BY DEF SendMessage, Task
  <2> QED BY <2>1, AppendAsConcat
<1>2. /\ IsSpeech(t, k)
      /\ m.type # "NOTICE" => SaysOnce(t, ws, k)
      /\ m.type = "NOTICE" => Notices(t, ws, k)
  BY OneIsSaid
<1> QED BY <1>1, <1>2

\* No message, as a list.
LEMMA SilenceIsSaid ==
  ASSUME IsList(queue), NEW k, queue' = queue
  PROVE  \E t : queue' = queue \o t /\ IsSpeech(t, k) /\ SaysNothing(t, k)
<1>1. queue' = queue \o <<>>
  BY AppendAsConcat
<1> QED BY <1>1, NoneIsSaid

\* A published event is broadcast or not, and answered once, last.
LEMMA PublishIsSaid ==
  ASSUME RelayShape, NEW ws \in Sockets, NEW k \in Nat \ {0}, NEW e, PublishAndAnswer(ws, k, e)
  PROVE  \E t : queue' = queue \o t /\ IsSpeech(t, k) /\ SaysOnce(t, ws, k)
<1> DEFINE ok(accepted) == Ok(e, accepted, k)
<1>1. \A accepted : ok(accepted).type = "OK" /\ ok(accepted).n = k
  BY DEF Ok
<1> HIDE DEF ok
<1>2. IsList(queue) /\ "OK" \in AnswerTypes
  BY DEF RelayShape, AnswerTypes
<1>3. ASSUME NEW accepted, SendMessage(ws, ok(accepted))
      PROVE  \E t : queue' = queue \o t /\ IsSpeech(t, k) /\ SaysOnce(t, ws, k)
  <2>1. \E t : /\ queue' = queue \o t /\ IsSpeech(t, k)
               /\ ok(accepted).type # "NOTICE" => SaysOnce(t, ws, k)
               /\ ok(accepted).type = "NOTICE" => Notices(t, ws, k)
    BY <1>1, <1>2, <1>3, MessageIsSaid
  <2> QED BY <2>1, <1>1
<1>4. ASSUME NEW tasks \in Broadcasts(e), queue' = queue \o tasks \o Tasks(ws, <<ok(TRUE)>>)
      PROVE  \E t : queue' = queue \o t /\ IsSpeech(t, k) /\ SaysOnce(t, ws, k)
  <2> DEFINE m == ok(TRUE)
             one == <<Task(ws, m)>>
             t == tasks \o one
  <2>1. Tasks(ws, <<m>>) = one
    <3>1. DOMAIN <<m>> = {1} /\ <<m>>[1] = m
      BY ShortLists
    <3>2. Tasks(ws, <<m>>) = [i \in {1} |-> Task(ws, m)]
      BY <3>1 DEF Tasks, Task
    <3>3. one = [i \in {1} |-> Task(ws, m)]
      <4>1. IsList(one) /\ Len(one) = 1 /\ one[1] = Task(ws, m)
        BY ShortLists
      <4> HIDE DEF one
      <4>2. one = [i \in 1..1 |-> one[i]]
        BY <4>1, ListProperties
      <4>3. 1..1 = {1}
        OBVIOUS
      <4> QED BY <4>1, <4>2, <4>3
    <3> QED BY <3>2, <3>3
  <2>2. IsSpeech(tasks, k) /\ SaysNothing(tasks, k)
    BY BroadcastIsSaid DEF RelayShape
  <2>3. IsSpeech(one, k) /\ SaysOnce(one, ws, k)
    <3>1. m.type = "OK" /\ m.n = k
      BY <1>1
    <3> HIDE DEF m
    <3>2. IsSpeech(<<Task(ws, m)>>, k) /\ (m.type # "NOTICE" => SaysOnce(<<Task(ws, m)>>, ws, k))
      BY <3>1, <1>2, OneIsSaid
    <3> QED BY <3>1, <3>2
  <2> HIDE DEF one
  <2>4. IsSpeech(t, k) /\ SaysOnce(t, ws, k)
    BY <2>2, <2>3, SaidAfterOthers
  <2>5. queue' = queue \o t
    <3>1. IsList(tasks) /\ IsList(one)
      BY <2>2, <2>3 DEF IsSpeech
    <3>2. (queue \o tasks) \o one = queue \o (tasks \o one)
      BY <1>2, <3>1, ListsAssociate
    <3> QED BY <3>2, <2>1, <1>4
  <2> HIDE DEF t
  <2> QED BY <2>4, <2>5
<1>5. \/ \E accepted : SendMessage(ws, ok(accepted))
      \/ \E tasks \in Broadcasts(e) : queue' = queue \o tasks \o Tasks(ws, <<ok(TRUE)>>)
  BY DEF PublishAndAnswer, SendError, ok
<1> QED BY <1>3, <1>4, <1>5

-----------------------------------------------------------------------------
(***************************************************************************)
(* A message that arrives is answered, awaits something, or gets no        *)
(* answer, unless it ends its connection.                                  *)
(***************************************************************************)

\* A handling that begins is of the message that arrives.
NewCalls(raw) ==
  \A call \in calls' :
    \/ call \in calls
    \/ /\ call.n = N
       /\ call.stage = "verify" => EventOf(raw) \in Events
       /\ call.stage = "count" => Type(raw) = "COUNT"

\* The subscriptions change as the message asks, if it gets no NOTICE.
SubscriptionsFollow(ws, raw, t) ==
  \/ subscriptions' = subscriptions /\ (Notices(t, ws, N) \/ Type(raw) \notin {"REQ", "CLOSE"})
  \/ /\ Type(raw) = "REQ" /\ Subscribe(ws, SubId(raw), FiltersOf(raw))
     /\ AsksFor(raw, SubId(raw))
     /\ SaysNothing(t, N) \/ SaysOnce(t, ws, N)
  \/ Type(raw) = "CLOSE" /\ subscriptions' = Without({<<ws, SubId(raw)>>})

\* What becomes of a message whose client stays.
Handled(ws, raw, t) ==
  /\ queue' = queue \o t /\ IsSpeech(t, N)
  /\ Fate(ws, N, t, calls)
  /\ NewCalls(raw)
  /\ SubscriptionsFollow(ws, raw, t)

\* The number of the message that arrives.
LEMMA NextNumber == RelayShape => N \in Nat \ {0} /\ IsList(queue)
<1> SUFFICES ASSUME RelayShape PROVE N \in Nat \ {0} /\ IsList(queue)
  OBVIOUS
<1>1. Len(sent) \in Nat /\ IsList(queue)
  BY ListProperties DEF RelayShape
<1> QED BY <1>1 DEF N

\* Refusals are NOTICEs.
LEMMA RefusalIsHandled ==
  ASSUME RelayShape, NEW ws \in Sockets, NEW raw \in RawMessages[ws], SendError(ws, Notice(N)),
         UNCHANGED <<subscriptions, calls, quiet>>
  PROVE  \E t : Handled(ws, raw, t)
<1>1. Notice(N).type = "NOTICE" /\ Notice(N).n = N /\ "NOTICE" \in AnswerTypes
  BY DEF Notice, AnswerTypes
<1>2. SendMessage(ws, Notice(N))
  BY DEF SendError
<1>3. PICK t : queue' = queue \o t /\ IsSpeech(t, N) /\ Notices(t, ws, N)
  <2> DEFINE m == Notice(N)
  <2> HIDE DEF m
  <2>1. m.type = "NOTICE" /\ m.n = N /\ m.type \in AnswerTypes /\ SendMessage(ws, m)
    BY <1>1, <1>2 DEF m
  <2>2. \E t : /\ queue' = queue \o t /\ IsSpeech(t, N)
               /\ m.type # "NOTICE" => SaysOnce(t, ws, N)
               /\ m.type = "NOTICE" => Notices(t, ws, N)
    BY <2>1, NextNumber, MessageIsSaid
  <2> QED BY <2>1, <2>2
<1> QED BY <1>3 DEF Handled, Fate, NewCalls, SubscriptionsFollow

\* Any other answer, of a message that asks for no subscription.
LEMMA AnswerIsHandled ==
  ASSUME RelayShape, NEW ws \in Sockets, NEW raw \in RawMessages[ws],
         NEW m, m.type \in AnswerTypes \ {"NOTICE"}, m.n = N, SendMessage(ws, m),
         UNCHANGED <<calls, quiet>>
  PROVE  \E t : queue' = queue \o t /\ IsSpeech(t, N) /\ SaysOnce(t, ws, N) /\ Fate(ws, N, t, calls)
<1>1. \E t : /\ queue' = queue \o t /\ IsSpeech(t, N)
             /\ m.type # "NOTICE" => SaysOnce(t, ws, N)
             /\ m.type = "NOTICE" => Notices(t, ws, N)
  BY NextNumber, MessageIsSaid
<1> QED BY <1>1 DEF Fate

\* A message whose handling awaits something.
LEMMA AwaitIsHandled ==
  ASSUME RelayShape, NEW ws, NEW stage, queue' = queue,
         calls' = calls \cup {[n |-> N, stage |-> stage]}, quiet' = quiet
  PROVE  \E t : queue' = queue \o t /\ IsSpeech(t, N) /\ SaysNothing(t, N) /\ Fate(ws, N, t, calls)
<1>1. \E t : queue' = queue \o t /\ IsSpeech(t, N) /\ SaysNothing(t, N)
  BY NextNumber, SilenceIsSaid
<1> QED BY <1>1 DEF Fate

\* An EVENT is answered, or awaits the verifier or the handler.
LEMMA EventIsHandled ==
  ASSUME RelayShape, NEW ws \in Sockets, NEW raw \in RawMessages[ws], ReceiveEvent(ws, raw)
  PROVE  \E t : Handled(ws, raw, t)
<1>1. /\ Type(raw) = "EVENT" /\ EventOf(raw) \in Events
      /\ subscriptions' = subscriptions /\ quiet' = quiet
  BY AcceptedItems DEF ReceiveEvent, Record
<1>2. ASSUME NEW stage \in {"verify", "event"}, calls' = calls \cup {[n |-> N, stage |-> stage]},
             queue' = queue
      PROVE  \E t : Handled(ws, raw, t)
  <2>1. PICK t : queue' = queue \o t /\ IsSpeech(t, N) /\ SaysNothing(t, N) /\ Fate(ws, N, t, calls)
    BY <1>1, <1>2, AwaitIsHandled
  <2>2. NewCalls(raw)
    BY <1>1, <1>2 DEF NewCalls
  <2>3. SubscriptionsFollow(ws, raw, t)
    BY <1>1 DEF SubscriptionsFollow
  <2> QED BY <2>1, <2>2, <2>3 DEF Handled
<1>3. ASSUME calls' = calls, PublishAndAnswer(ws, N, EventOf(raw))
      PROVE  \E t : Handled(ws, raw, t)
  <2>1. PICK t : queue' = queue \o t /\ IsSpeech(t, N) /\ SaysOnce(t, ws, N)
    BY <1>3, NextNumber, PublishIsSaid
  <2>2. Fate(ws, N, t, calls) /\ NewCalls(raw)
    BY <1>1, <1>3, <2>1 DEF Fate, NewCalls
  <2>3. SubscriptionsFollow(ws, raw, t)
    BY <1>1 DEF SubscriptionsFollow
  <2> QED BY <2>1, <2>2, <2>3 DEF Handled
<1>4. \/ calls' = calls \cup {[n |-> N, stage |-> "verify"]} /\ queue' = queue
      \/ calls' = calls \cup {[n |-> N, stage |-> "event"]} /\ queue' = queue
      \/ calls' = calls /\ PublishAndAnswer(ws, N, EventOf(raw))
  BY DEF ReceiveEvent, HandleEvent
<1> QED BY <1>2, <1>3, <1>4

\* A REQ is answered, or awaits the handler, and its subscription is registered.
LEMMA ReqIsHandled ==
  ASSUME StoreInv, RelayShape, NEW ws \in Sockets, NEW raw \in RawMessages[ws], ReceiveReq(ws, raw)
  PROVE  \E t : Handled(ws, raw, t)
<1> DEFINE found == QueryMany(Compiled(FiltersOf(raw)))
           es == [i \in DOMAIN found |-> found[i].event]
<1>1. /\ Type(raw) = "REQ" /\ Subscribe(ws, SubId(raw), FiltersOf(raw)) /\ quiet' = quiet
      /\ ParseClientMessage(raw, info) = Accepted
  BY DEF ReceiveReq, Record
<1>2. ASSUME NEW t, queue' = queue \o t, IsSpeech(t, N), SaysNothing(t, N) \/ SaysOnce(t, ws, N),
             Fate(ws, N, t, calls), NewCalls(raw)
      PROVE  Handled(ws, raw, t)
  <2>1. AsksFor(raw, SubId(raw))
    BY <1>1, AcceptedItems DEF AsksFor
  <2> QED BY <1>1, <1>2, <2>1 DEF Handled, SubscriptionsFollow
<1>3. CASE calls' = calls \cup {[n |-> N, stage |-> "req"]} /\ queue' = queue
  <2>1. PICK t : queue' = queue \o t /\ IsSpeech(t, N) /\ SaysNothing(t, N) /\ Fate(ws, N, t, calls)
    BY <1>1, <1>3, AwaitIsHandled
  <2>2. NewCalls(raw)
    BY <1>3 DEF NewCalls
  <2> QED BY <2>1, <2>2, <1>2
<1>4. CASE calls' = calls /\ SendMessage(ws, Closed(SubId(raw), N))
  <2>1. Closed(SubId(raw), N).type \in AnswerTypes \ {"NOTICE"} /\ Closed(SubId(raw), N).n = N
    BY DEF Closed, AnswerTypes
  <2>2. PICK t : queue' = queue \o t /\ IsSpeech(t, N) /\ SaysOnce(t, ws, N) /\ Fate(ws, N, t, calls)
    BY <1>1, <1>4, <2>1, AnswerIsHandled
  <2>3. NewCalls(raw)
    BY <1>4 DEF NewCalls
  <2> QED BY <2>2, <2>3, <1>2
<1>5. CASE calls' = calls /\ Compile(FiltersOf(raw)) /\ SendEvents(ws, SubId(raw), es, N)
  <2>1. AreFilters(Compiled(FiltersOf(raw)))
    BY <1>1, <1>5, AcceptedItems
  <2>2. IsList(found)
    BY <2>1, QueryManyIsRight
  <2> HIDE DEF found
  <2>3. IsList(es)
    <3>1. DOMAIN found = 1..Len(found) /\ Len(found) \in Nat
      BY <2>2, ListProperties
    <3>2. es = [i \in 1..Len(found) |-> es[i]]
      BY <3>1
    <3> HIDE DEF es
    <3> QED BY <3>1, <3>2, ListMade
  <2>4. PICK t : queue' = queue \o t /\ IsSpeech(t, N) /\ SaysOnce(t, ws, N)
    <3> HIDE DEF es
    <3>1. N \in Nat \ {0} /\ SendEvents(ws, SubId(raw), es, N)
      BY <1>5, NextNumber
    <3> QED BY <3>1, <2>3, EventsAreSaid
  <2>5. Fate(ws, N, t, calls) /\ NewCalls(raw)
    BY <1>1, <1>5, <2>4 DEF Fate, NewCalls
  <2> QED BY <2>4, <2>5, <1>2
<1>6. \/ calls' = calls \cup {[n |-> N, stage |-> "req"]} /\ queue' = queue
      \/ calls' = calls /\ SendMessage(ws, Closed(SubId(raw), N))
      \/ calls' = calls /\ Compile(FiltersOf(raw)) /\ SendEvents(ws, SubId(raw), es, N)
  BY DEF ReceiveReq, SendError
<1> QED BY <1>3, <1>4, <1>5, <1>6

\* A COUNT is answered, by a NOTICE if a filter does not compile, or awaits the handler.
LEMMA CountIsHandled ==
  ASSUME RelayShape, NEW ws \in Sockets, NEW raw \in RawMessages[ws], ReceiveCount(ws, raw)
  PROVE  \E t : Handled(ws, raw, t)
<1>1. Type(raw) = "COUNT" /\ subscriptions' = subscriptions /\ quiet' = quiet
  BY DEF ReceiveCount
<1>2. CASE calls' = calls \cup {[n |-> N, stage |-> "count"]} /\ queue' = queue
  <2>1. PICK t : queue' = queue \o t /\ IsSpeech(t, N) /\ SaysNothing(t, N) /\ Fate(ws, N, t, calls)
    BY <1>1, <1>2, AwaitIsHandled
  <2>2. NewCalls(raw) /\ SubscriptionsFollow(ws, raw, t)
    BY <1>1, <1>2 DEF NewCalls, SubscriptionsFollow
  <2> QED BY <2>1, <2>2 DEF Handled
<1>3. ASSUME NEW count, calls' = calls, SendMessage(ws, CountMessage(SubId(raw), count, N))
      PROVE  \E t : Handled(ws, raw, t)
  <2> DEFINE m == CountMessage(SubId(raw), count, N)
  <2>1. m.type \in AnswerTypes \ {"NOTICE"} /\ m.n = N
    BY DEF CountMessage, AnswerTypes
  <2> HIDE DEF m
  <2>2. PICK t : queue' = queue \o t /\ IsSpeech(t, N) /\ SaysOnce(t, ws, N) /\ Fate(ws, N, t, calls)
    <3>1. SendMessage(ws, m)
      BY <1>3 DEF m
    <3> QED BY <3>1, <1>1, <1>3, <2>1, AnswerIsHandled
  <2>3. NewCalls(raw) /\ SubscriptionsFollow(ws, raw, t)
    BY <1>1, <1>3 DEF NewCalls, SubscriptionsFollow
  <2> QED BY <2>2, <2>3 DEF Handled
<1>4. CASE calls' = calls /\ SendError(ws, Notice(N))
  BY <1>1, <1>4, RefusalIsHandled
<1>5. \/ calls' = calls \cup {[n |-> N, stage |-> "count"]} /\ queue' = queue
      \/ \E count : calls' = calls /\ SendMessage(ws, CountMessage(SubId(raw), count, N))
      \/ calls' = calls /\ SendError(ws, Notice(N))
  BY DEF ReceiveCount
<1> QED BY <1>2, <1>3, <1>4, <1>5

\* Every message that arrives is handled so, or ends its connection.
LEMMA ArrivalIsHandled ==
  ASSUME StoreInv, RelayShape, NEW ws \in Sockets, NEW raw \in RawMessages[ws], Receive(ws, raw)
  PROVE  /\ Arrives(ws, raw) /\ inbox' = inbox /\ UNCHANGED <<info, archive, resetAt>>
         /\ \/ Leave({ws}) /\ UNCHANGED <<queue, calls, quiet>>
            \/ sockets' = sockets /\ \E t : Handled(ws, raw, t)
<1>1. CASE RefuseMessage(ws, raw)
  BY <1>1, RefusalIsHandled DEF RefuseMessage, config
<1>2. CASE DropConnection(ws, raw)
  BY <1>2 DEF DropConnection, Record, config
<1>3. CASE SimulateError(ws, raw)
  BY <1>3, RefusalIsHandled DEF SimulateError, Record, config
<1>4. CASE ReceiveEvent(ws, raw)
  BY <1>4, EventIsHandled DEF ReceiveEvent, Record, config
<1>5. CASE ReceiveReq(ws, raw)
  BY <1>5, ReqIsHandled DEF ReceiveReq, Record, config
<1>6. CASE ReceiveClose(ws, raw)
  <2>1. /\ Type(raw) = "CLOSE" /\ subscriptions' = Without({<<ws, SubId(raw)>>})
        /\ quiet' = quiet \cup {N} /\ calls' = calls /\ queue' = queue
    BY <1>6 DEF ReceiveClose
  <2>2. PICK t : queue' = queue \o t /\ IsSpeech(t, N) /\ SaysNothing(t, N)
    BY <2>1, NextNumber, SilenceIsSaid
  <2>3. Handled(ws, raw, t)
    BY <2>1, <2>2 DEF Handled, Fate, NewCalls, SubscriptionsFollow
  <2> QED BY <2>3, <1>6 DEF ReceiveClose, Record, config
<1>7. CASE ReceiveCount(ws, raw)
  BY <1>7, CountIsHandled DEF ReceiveCount, Record, config
<1>8. CASE ReceiveAuth(ws, raw)
  <2>1. /\ Type(raw) = "AUTH" /\ subscriptions' = subscriptions /\ quiet' = quiet /\ queue' = queue
        /\ calls' = calls \cup {[n |-> N, stage |-> "auth"]}
    BY <1>8 DEF ReceiveAuth
  <2>2. PICK t : queue' = queue \o t /\ IsSpeech(t, N) /\ SaysNothing(t, N) /\ Fate(ws, N, t, calls)
    BY <2>1, AwaitIsHandled
  <2>3. Handled(ws, raw, t)
    BY <2>1, <2>2 DEF Handled, NewCalls, SubscriptionsFollow
  <2> QED BY <2>3, <1>8 DEF ReceiveAuth, Record, config
<1>9. CASE RefuseType(ws, raw)
  BY <1>9, RefusalIsHandled DEF RefuseType, Record, config
<1> QED BY <1>1, <1>2, <1>3, <1>4, <1>5, <1>6, <1>7, <1>8, <1>9 DEF Receive

-----------------------------------------------------------------------------
(***************************************************************************)
(* A handling that goes on answers once, awaits again, or ends without an  *)
(* answer.                                                                 *)
(***************************************************************************)

\* What becomes of the message of a call; only a COUNT is answered by a NOTICE then.
Settled(call, t) ==
  /\ queue' = queue \o t /\ IsSpeech(t, call.n)
  /\ Fate(WsOf(call), call.n, t, calls \ {call})
  /\ SaysNothing(t, call.n) \/ SaysOnce(t, WsOf(call), call.n) \/ Type(RawOf(call)) = "COUNT"
  /\ \A c \in calls' : c \in calls \/ (c.n = call.n /\ c.stage = "event")

\* A handling is of a message that was sent.
LEMMA CallFacts ==
  ASSUME RelayShape, NEW call \in calls
  PROVE  /\ call.n \in Nat \ {0} /\ call.n \in DOMAIN sent /\ IsList(queue)
         /\ WsOf(call) \in Sockets /\ RawOf(call) \in RawMessages[WsOf(call)]
<1>1. call.n \in DOMAIN sent /\ IsList(queue) /\ IsList(sent)
  BY DEF RelayShape
<1>2. DOMAIN sent = 1..Len(sent) /\ Len(sent) \in Nat
  BY <1>1, ListProperties
<1>3. call.n \in Nat \ {0}
  BY <1>1, <1>2
<1>4. WsOf(call) \in Sockets /\ RawOf(call) \in RawMessages[WsOf(call)]
  BY <1>1 DEF RelayShape, WsOf, RawOf
<1> QED BY <1>1, <1>3, <1>4

\* An answer ends the handling.
LEMMA LastAnswer ==
  ASSUME RelayShape, NEW call \in calls, NEW m, m.type \in AnswerTypes, m.n = call.n,
         m.type = "NOTICE" => Type(RawOf(call)) = "COUNT",
         SendMessage(WsOf(call), m), calls' = calls \ {call}, quiet' = quiet
  PROVE  \E t : Settled(call, t)
<1>1. PICK t : /\ queue' = queue \o t /\ IsSpeech(t, call.n)
               /\ m.type # "NOTICE" => SaysOnce(t, WsOf(call), call.n)
               /\ m.type = "NOTICE" => Notices(t, WsOf(call), call.n)
  BY CallFacts, MessageIsSaid
<1> QED BY <1>1 DEF Settled, Fate

\* After the verifier, an event is published and answered, or awaits the handler.
LEMMA HandlingIsSettled ==
  ASSUME RelayShape, NEW call \in calls, SignatureValid(call)
  PROVE  \E t : Settled(call, t)
<1> DEFINE k == call.n
           ws == WsOf(call)
           e == EventOf(RawOf(call))
<1>1. HandleEvent(ws, k, e, calls \ {call}) /\ quiet' = quiet
  BY DEF SignatureValid, history
<1>2. CASE calls' = (calls \ {call}) \cup {[n |-> k, stage |-> "event"]} /\ queue' = queue
  <2>1. PICK t : queue' = queue \o t /\ IsSpeech(t, k) /\ SaysNothing(t, k)
    BY <1>2, CallFacts, SilenceIsSaid
  <2>2. Fate(ws, k, t, calls \ {call})
    BY <1>1, <1>2, <2>1 DEF Fate
  <2>3. \A c \in calls' : c \in calls \/ (c.n = k /\ c.stage = "event")
    BY <1>2
  <2> QED BY <2>1, <2>2, <2>3 DEF Settled
<1>3. CASE calls' = calls \ {call} /\ PublishAndAnswer(ws, k, e)
  <2>1. PICK t : queue' = queue \o t /\ IsSpeech(t, k) /\ SaysOnce(t, ws, k)
    BY <1>3, CallFacts, PublishIsSaid
  <2>2. Fate(ws, k, t, calls \ {call})
    BY <1>1, <1>3, <2>1 DEF Fate
  <2> QED BY <2>1, <2>2, <1>3 DEF Settled
<1>4. \/ calls' = (calls \ {call}) \cup {[n |-> k, stage |-> "event"]} /\ queue' = queue
      \/ calls' = calls \ {call} /\ PublishAndAnswer(ws, k, e)
  BY <1>1 DEF HandleEvent
<1> QED BY <1>2, <1>3, <1>4

\* The answers of a handling that ends.
LEMMA EndIsSettled ==
  ASSUME RelayShape, NEW call \in calls,
         \/ SignatureInvalid(call)
         \/ \E accepted \in BOOLEAN : EventHandled(call, accepted)
         \/ CountHandled(call) \/ AuthHandled(call) \/ HandlerThrows(call)
  PROVE  \E t : Settled(call, t)
<1> DEFINE ok(accepted) == Ok(EventOf(RawOf(call)), accepted, call.n)
           Final(m) == m.type \in AnswerTypes /\ m.n = call.n /\ (m.type = "NOTICE" => Type(RawOf(call)) = "COUNT")
<1>1. calls' = calls \ {call} /\ quiet' = quiet
  BY DEF SignatureInvalid, EventHandled, CountHandled, AuthHandled, HandlerThrows, history
<1>2. \A accepted : Final(ok(accepted))
  BY DEF Ok, AnswerTypes
<1>3. \A id : Final(Closed(id, call.n)) /\ \A count : Final(CountMessage(id, count, call.n))
  BY DEF Closed, CountMessage, AnswerTypes
<1>4. call.stage = "count" => Final(Notice(call.n))
  BY DEF Notice, AnswerTypes, RelayShape
<1>5. call.stage \in {"event", "req", "count"} => Final(Failure(call))
  <2> HIDE DEF Final
  <2>1. CASE call.stage = "event"
    BY <2>1, <1>2 DEF Failure
  <2>2. CASE call.stage = "req"
    BY <2>2, <1>3 DEF Failure
  <2>3. CASE call.stage = "count"
    BY <2>3, <1>4 DEF Failure
  <2> QED BY <2>1, <2>2, <2>3
<1>6. \E m : Final(m) /\ SendMessage(WsOf(call), m)
  <2> HIDE DEF Final
  <2>1. CASE SignatureInvalid(call)
    BY <2>1, <1>2 DEF SignatureInvalid, SendError
  <2>2. CASE \E accepted \in BOOLEAN : EventHandled(call, accepted)
    BY <2>2, <1>2 DEF EventHandled, SendError
  <2>3. CASE CountHandled(call)
    BY <2>3, <1>3 DEF CountHandled
  <2>4. CASE AuthHandled(call)
    BY <2>4, <1>2 DEF AuthHandled
  <2>5. CASE HandlerThrows(call)
    BY <2>5, <1>5 DEF HandlerThrows, SendError
  <2> QED BY <2>1, <2>2, <2>3, <2>4, <2>5
<1> QED BY <1>1, <1>6, LastAnswer

\* Every handling that goes on does so in this way.
LEMMA CallIsSettled ==
  ASSUME RelayShape, NEW call \in calls, Settle(call)
  PROVE  /\ UNCHANGED <<sockets, subscriptions, info, archive, sent, resetAt, inbox>>
         /\ \E t : Settled(call, t)
<1>1. UNCHANGED <<sockets, subscriptions, info, archive, sent, resetAt, inbox>>
  BY DEF Settle, SignatureValid, SignatureInvalid, VerifierRejects, EventHandled, ReqHandled,
         CountHandled, AuthHandled, HandlerThrows, config, history
<1> SUFFICES \E t : Settled(call, t)
  BY <1>1
<1>2. CASE SignatureValid(call)
  BY <1>2, HandlingIsSettled
<1>3. CASE VerifierRejects(call)
  <2>1. calls' = calls \ {call} /\ quiet' = quiet \cup {call.n} /\ queue' = queue
    BY <1>3 DEF VerifierRejects
  <2>2. PICK t : queue' = queue \o t /\ IsSpeech(t, call.n) /\ SaysNothing(t, call.n)
    BY <2>1, CallFacts, SilenceIsSaid
  <2> QED BY <2>1, <2>2 DEF Settled, Fate
<1>4. CASE \E result \in HandlerResults : ReqHandled(call, result)
  <2>1. PICK result \in HandlerResults : ReqHandled(call, result)
    BY <1>4
  <2>2. IsList(result)
    BY RelayAssumption, SeqIsList
  <2>3. /\ SendEvents(WsOf(call), SubId(RawOf(call)), result, call.n)
        /\ calls' = calls \ {call} /\ quiet' = quiet
    BY <2>1 DEF ReqHandled, history
  <2>4. PICK t : queue' = queue \o t /\ IsSpeech(t, call.n) /\ SaysOnce(t, WsOf(call), call.n)
    BY <2>2, <2>3, CallFacts, EventsAreSaid
  <2> QED BY <2>3, <2>4 DEF Settled, Fate
<1>5. CASE \/ SignatureInvalid(call)
           \/ \E accepted \in BOOLEAN : EventHandled(call, accepted)
           \/ CountHandled(call) \/ AuthHandled(call) \/ HandlerThrows(call)
  BY <1>5, EndIsSettled
<1> QED BY <1>2, <1>3, <1>4, <1>5 DEF Settle

-----------------------------------------------------------------------------
(***************************************************************************)
(* The test's calls answer nobody, and take subscriptions away.            *)
(***************************************************************************)

\* Sockets and subscriptions that are left are as they were.
Thinned ==
  /\ sockets' \in [Sockets -> {"OPEN", "CLOSING", "CLOSED"}]
  /\ \A ws \in Sockets : sockets'[ws] = "OPEN" => sockets[ws] = "OPEN"
  /\ DOMAIN subscriptions' \subseteq DOMAIN subscriptions
  /\ \A key \in DOMAIN subscriptions' :
       subscriptions'[key] = subscriptions[key] /\ sockets'[key[1]] # "CLOSED"

\* Sockets that leave take their subscriptions with them.
LEMMA LeavingThins ==
  ASSUME RelayShape, SubscriptionsAreConnected, NEW S \in SUBSET Sockets, Leave(S)
  PROVE  Thinned /\ \A ws \in S : sockets'[ws] = "CLOSED"
<1>1. sockets' = [ws \in Sockets |-> IF ws \in S THEN "CLOSED" ELSE sockets[ws]]
  BY DEF Leave
<1>2. sockets \in [Sockets -> {"OPEN", "CLOSING", "CLOSED"}]
  BY DEF RelayShape
<1>3. subscriptions' = [key \in DOMAIN subscriptions \ SubscriptionsOf(S) |-> subscriptions[key]]
  BY DEF Leave, Without
<1>4. \A key \in DOMAIN subscriptions' :
        /\ key \in DOMAIN subscriptions /\ key[1] \notin S /\ key[1] \in Sockets
        /\ subscriptions'[key] = subscriptions[key] /\ sockets[key[1]] # "CLOSED"
  BY <1>3 DEF SubscriptionsOf, RelayShape, SubscriptionsAreConnected
<1> QED BY <1>1, <1>2, <1>4 DEF Thinned

\* No socket leaves.
LEMMA StayingThins ==
  ASSUME RelayShape, SubscriptionsAreConnected, UNCHANGED <<sockets, subscriptions>>
  PROVE  Thinned
BY DEF Thinned, RelayShape, SubscriptionsAreConnected

\* A call of the test, or the end of a connection.
Undisturbed(t) ==
  /\ queue' = queue \o t /\ IsSpeech(t, 0)
  /\ UNCHANGED <<inbox, calls, quiet, sent>>
  /\ info' \in Limitations \cup {None} /\ archive'.info \in Limitations \cup {None}
  /\ \/ Thinned /\ resetAt' = resetAt
     \/ sockets' = sockets /\ subscriptions' = None /\ resetAt' = Len(sent)

\* The notices of the test answer nobody.
LEMMA NoticeIsSaid ==
  ASSUME RelayShape, SendNotice
  PROVE  \E t : queue' = queue \o t /\ IsSpeech(t, 0)
<1> DEFINE S == {ws \in Sockets : sockets[ws] # "CLOSED"}
<1>1. PICK order \in SetToSeqs(S) :
        queue' = queue \o [i \in DOMAIN order |-> [ws |-> order[i], message |-> Notice(0)]]
  BY DEF SendNotice
<1> DEFINE t == [i \in DOMAIN order |-> [ws |-> order[i], message |-> Notice(0)]]
<1>2. IsFiniteSet(S)
  BY RelayAssumption, FS_Subset
<1>3. S \subseteq Sockets
  OBVIOUS
<1> HIDE DEF S
<1>4. IsList(order) /\ \A i \in DOMAIN order : order[i] \in Sockets
  BY <1>2, <1>3, OrdersAreLists
<1>5. DOMAIN order = 1..Len(order) /\ Len(order) \in Nat
  BY <1>4, ListProperties
<1>6. IsList(t)
  <2>1. t = [i \in 1..Len(order) |-> t[i]]
    BY <1>5
  <2> HIDE DEF t
  <2> QED BY <2>1, <1>5, ListMade
<1>7. DOMAIN t = DOMAIN order /\ \A i \in DOMAIN t : t[i].ws = order[i] /\ t[i].message = Notice(0)
  OBVIOUS
<1> HIDE DEF t
<1>8. Notice(0).type = "NOTICE" /\ Notice(0).n = 0
  BY DEF Notice
<1>9. IsSpeech(t, 0)
  BY <1>4, <1>6, <1>7, <1>8 DEF IsSpeech, MessageTypes
<1> QED BY <1>1, <1>9 DEF t

\* Every call of the test is of this kind,
LEMMA TestIsUndisturbing ==
  ASSUME RelayShape, SubscriptionsAreConnected, Test
  PROVE  \E t : Undisturbed(t)
<1>1. UNCHANGED <<sent, quiet, calls, inbox>>
  BY DEF Test, TestCalls, SetHandler, SetInfo, RelayStore, Broadcast, SendNotice, Disconnect,
         RelaySnapshot, RelayRestore, RelayReset
<1>2. info \in Limitations \cup {None} /\ archive.info \in Limitations \cup {None} /\ IsList(queue)
  BY DEF RelayShape
<1>3. ASSUME queue' = queue,
             info' \in Limitations \cup {None} /\ archive'.info \in Limitations \cup {None},
             \/ Thinned /\ resetAt' = resetAt
             \/ sockets' = sockets /\ subscriptions' = None /\ resetAt' = Len(sent)
      PROVE  \E t : Undisturbed(t)
  <2>1. PICK t : queue' = queue \o t /\ IsSpeech(t, 0)
    BY <1>2, <1>3, SilenceIsSaid
  <2> QED BY <2>1, <1>1, <1>3 DEF Undisturbed
<1>4. ASSUME NEW handler, SetHandler(handler) PROVE \E t : Undisturbed(t)
  <2>1. /\ queue' = queue /\ UNCHANGED <<info, archive, resetAt, sockets, subscriptions>>
    BY <1>4 DEF SetHandler, TestCalls
  <2> QED BY <2>1, <1>2, <1>3, StayingThins
<1>5. ASSUME NEW limitation \in Limitations, SetInfo(limitation) PROVE \E t : Undisturbed(t)
  <2>1. /\ queue' = queue /\ UNCHANGED <<archive, resetAt, sockets, subscriptions>>
        /\ info' = limitation
    BY <1>5 DEF SetInfo, TestCalls
  <2> QED BY <2>1, <1>2, <1>3, StayingThins
<1>6. ASSUME NEW e, RelayStore(e) PROVE \E t : Undisturbed(t)
  <2>1. /\ queue' = queue /\ UNCHANGED <<info, archive, resetAt, sockets, subscriptions>>
    BY <1>6 DEF RelayStore, TestCalls, config
  <2> QED BY <2>1, <1>2, <1>3, StayingThins
<1>7. ASSUME NEW e, Broadcast(e) PROVE \E t : Undisturbed(t)
  <2>1. UNCHANGED <<info, archive, resetAt, sockets, subscriptions>>
    BY <1>7 DEF Broadcast, TestCalls, config
  <2>2. CASE queue' = queue
    BY <2>1, <2>2, <1>2, <1>3, StayingThins
  <2>3. CASE \E tasks \in Broadcasts(e) : queue' = queue \o tasks
    <3>1. PICK tasks \in Broadcasts(e) : queue' = queue \o tasks
      BY <2>3
    <3>2. IsSpeech(tasks, 0)
      BY BroadcastIsSaid DEF RelayShape
    <3> QED BY <3>1, <3>2, <2>1, <1>1, <1>2, StayingThins DEF Undisturbed
  <2> QED BY <2>2, <2>3, <1>7 DEF Broadcast
<1>8. CASE SendNotice
  <2>1. UNCHANGED <<info, archive, resetAt, sockets, subscriptions>>
    BY <1>8 DEF SendNotice, TestCalls, config
  <2>2. PICK t : queue' = queue \o t /\ IsSpeech(t, 0)
    BY <1>8, NoticeIsSaid
  <2> QED BY <2>1, <2>2, <1>1, <1>2, StayingThins DEF Undisturbed
<1>9. CASE Disconnect
  <2>1. /\ queue' = queue /\ UNCHANGED <<info, archive, resetAt>>
        /\ Leave({ws \in Sockets : sockets[ws] = "OPEN"})
    BY <1>9 DEF Disconnect, TestCalls, config
  <2>2. Thinned
    BY <2>1, LeavingThins
  <2> QED BY <2>1, <2>2, <1>2, <1>3
<1>10. CASE RelaySnapshot
  <2>1. /\ queue' = queue /\ UNCHANGED <<info, resetAt, sockets, subscriptions>>
        /\ archive'.info = info
    BY <1>10 DEF RelaySnapshot, TestCalls
  <2> QED BY <2>1, <1>2, <1>3, StayingThins
<1>11. CASE RelayRestore
  <2>1. /\ queue' = queue /\ UNCHANGED <<archive, resetAt, sockets, subscriptions>>
        /\ info' = archive.info
    BY <1>11 DEF RelayRestore, TestCalls
  <2> QED BY <2>1, <1>2, <1>3, StayingThins
<1>12. CASE RelayReset
  <2>1. /\ queue' = queue /\ UNCHANGED <<archive, sockets>>
        /\ info' = None /\ subscriptions' = None /\ resetAt' = Len(sent)
    BY <1>12 DEF RelayReset, TestCalls, NoSubscriptions
  <2> QED BY <2>1, <1>2, <1>3
<1> QED BY <1>4, <1>5, <1>6, <1>7, <1>8, <1>9, <1>10, <1>11, <1>12 DEF Test

\* and so is the end of a connection.
LEMMA ClosingIsUndisturbing ==
  ASSUME RelayShape, SubscriptionsAreConnected, NEW ws \in Sockets, CloseSocket(ws) \/ FinishClose(ws)
  PROVE  \E t : Undisturbed(t)
<1>1. /\ UNCHANGED <<queue, sent, quiet, calls, inbox, info, archive>>
  BY DEF CloseSocket, FinishClose, TestCalls, config, history
<1>2. info \in Limitations \cup {None} /\ archive.info \in Limitations \cup {None} /\ IsList(queue)
  BY DEF RelayShape
<1>3. PICK t : queue' = queue \o t /\ IsSpeech(t, 0)
  BY <1>1, <1>2, SilenceIsSaid
<1>4. Thinned /\ resetAt' = resetAt
  <2>1. CASE CloseSocket(ws)
    <3>1. /\ sockets' = [sockets EXCEPT ![ws] = "CLOSING"] /\ subscriptions' = subscriptions
          /\ resetAt' = resetAt
      BY <2>1 DEF CloseSocket, TestCalls
    <3>2. sockets \in [Sockets -> {"OPEN", "CLOSING", "CLOSED"}]
      BY DEF RelayShape
    <3> QED BY <3>1, <3>2 DEF Thinned, SubscriptionsAreConnected, RelayShape
  <2>2. CASE FinishClose(ws)
    <3>1. Leave({ws}) /\ resetAt' = resetAt
      BY <2>2 DEF FinishClose, history
    <3> QED BY <3>1, LeavingThins
  <2> QED BY <2>1, <2>2
<1> QED BY <1>1, <1>2, <1>3, <1>4 DEF Undisturbed

-----------------------------------------------------------------------------
(***************************************************************************)
(* The arrival of a message keeps the invariant.                           *)
(***************************************************************************)

\* The message that arrives gets the next number.
LEMMA SentGrows ==
  ASSUME RelayShape, NEW ws, NEW raw, Arrives(ws, raw)
  PROVE  /\ IsList(sent') /\ Len(sent') = N
         /\ DOMAIN sent' = DOMAIN sent \cup {N} /\ N \notin DOMAIN sent
         /\ \A n \in DOMAIN sent : sent'[n] = sent[n]
         /\ sent'[N] = [ws |-> ws, raw |-> raw]
         /\ DOMAIN sent = 1..Len(sent) /\ Len(sent) \in Nat
<1>1. IsList(sent) /\ Len(sent) \in Nat /\ DOMAIN sent = 1..Len(sent)
  BY ListProperties DEF RelayShape
<1> DEFINE message == [ws |-> ws, raw |-> raw]
<1>2. sent' = Append(sent, message)
  BY DEF Arrives
<1> HIDE DEF message
<1>3. /\ IsList(sent') /\ Len(sent') = N
      /\ \A n \in 1..Len(sent) : sent'[n] = sent[n]
      /\ sent'[N] = message
  BY <1>1, <1>2, ListAppended DEF N
<1>4. DOMAIN sent' = 1..N
  BY <1>3, ListProperties
<1>5. 1..N = 1..Len(sent) \cup {N} /\ N \notin 1..Len(sent)
  BY <1>1 DEF N
<1> QED BY <1>1, <1>3, <1>4, <1>5 DEF message

\* Nothing carries a number that has not been given.
LEMMA NothingOfNext ==
  ASSUME RelayShape, NEW ws \in Sockets, NEW T
  PROVE  /\ NothingSaid(queue, inbox[ws], ws, N, T)
         /\ CallsOf(calls, N) = {} /\ N \notin quiet
<1>1. Len(sent) \in Nat /\ DOMAIN sent = 1..Len(sent)
  BY ListProperties DEF RelayShape
<1>2. N \notin 0..Len(sent) /\ N \notin DOMAIN sent
  BY <1>1 DEF N
<1> QED BY <1>2 DEF RelayShape, IsNumbered, NothingSaid, Given, Due, CallsOf

\* What is said is for sockets, and carries numbers that have been given.
LEMMA QueueStaysShaped ==
  ASSUME NEW q, IsList(q), NEW j \in Nat, NEW m \in Nat, j <= m, NEW k \in 0..m,
         \A i \in DOMAIN q : q[i].ws \in Sockets /\ IsNumbered(q[i].message, j),
         NEW t, IsSpeech(t, k)
  PROVE  /\ IsList(q \o t)
         /\ \A i \in DOMAIN (q \o t) : (q \o t)[i].ws \in Sockets /\ IsNumbered((q \o t)[i].message, m)
<1> DEFINE u == q \o t
           Good(x) == x.ws \in Sockets /\ IsNumbered(x.message, m)
<1>1. IsList(t) /\ \A i \in DOMAIN t : Good(t[i])
  BY DEF IsSpeech, IsNumbered
<1>2. \A i \in DOMAIN q : Good(q[i])
  BY DEF IsNumbered
<1> HIDE DEF Good
<1>3. /\ IsList(u) /\ Len(u) = Len(q) + Len(t)
      /\ \A i \in 1..Len(q) : u[i] = q[i]
      /\ \A i \in 1..Len(t) : u[Len(q) + i] = t[i]
  BY <1>1, ListConcat
<1>4. /\ DOMAIN q = 1..Len(q) /\ DOMAIN t = 1..Len(t) /\ DOMAIN u = 1..Len(u)
      /\ Len(q) \in Nat /\ Len(t) \in Nat
  BY <1>1, <1>3, ListProperties
<1> HIDE DEF u
<1>5. ASSUME NEW i \in DOMAIN u PROVE Good(u[i])
  <2>1. i \in 1..Len(q) \/ (i - Len(q) \in 1..Len(t) /\ Len(q) + (i - Len(q)) = i)
    BY <1>3, <1>4
  <2> QED BY <2>1, <1>1, <1>2, <1>3, <1>4
<1> QED BY <1>3, <1>5 DEF u, Good

\* The numbers stay right, and no subscription is left behind.
LEMMA ArrivalIsShaped ==
  ASSUME StoreInv, RelayShape, SubscriptionsAreConnected,
         NEW ws \in Sockets, NEW raw \in RawMessages[ws], Receive(ws, raw)
  PROVE  RelayShape' /\ SubscriptionsAreConnected'
<1>1. /\ Arrives(ws, raw) /\ inbox' = inbox /\ UNCHANGED <<info, archive, resetAt>>
      /\ \/ Leave({ws}) /\ UNCHANGED <<queue, calls, quiet>>
         \/ sockets' = sockets /\ \E t : Handled(ws, raw, t)
  BY ArrivalIsHandled
<1>2. /\ IsList(sent') /\ Len(sent') = N
      /\ DOMAIN sent' = DOMAIN sent \cup {N}
      /\ \A n \in DOMAIN sent : sent'[n] = sent[n]
      /\ sent'[N] = [ws |-> ws, raw |-> raw]
      /\ Len(sent) \in Nat
  BY <1>1, SentGrows
<1>3. N \in Nat /\ Len(sent) <= N /\ 0..Len(sent) \subseteq 0..N /\ N \in 0..N
  BY <1>2 DEF N
<1>4. /\ sockets' \in [Sockets -> {"OPEN", "CLOSING", "CLOSED"}]
      /\ IsFiniteSet(DOMAIN subscriptions')
      /\ \A key \in DOMAIN subscriptions' :
           key = <<key[1], key[2]>> /\ key[1] \in Sockets /\ sockets'[key[1]] # "CLOSED"
  <2>1. /\ sockets \in [Sockets -> {"OPEN", "CLOSING", "CLOSED"}]
        /\ IsFiniteSet(DOMAIN subscriptions)
        /\ \A key \in DOMAIN subscriptions :
             key = <<key[1], key[2]>> /\ key[1] \in Sockets /\ sockets[key[1]] # "CLOSED"
    BY DEF RelayShape, SubscriptionsAreConnected
  <2>2. CASE Leave({ws})
    <3>1. Thinned
      BY <2>2, LeavingThins
    <3> QED BY <3>1, <2>1, FS_Subset DEF Thinned
  <2>3. CASE sockets' = sockets /\ \E t : Handled(ws, raw, t)
    <3>1. \/ subscriptions' = subscriptions
          \/ Subscribe(ws, SubId(raw), FiltersOf(raw))
          \/ subscriptions' = Without({<<ws, SubId(raw)>>})
      BY <2>3 DEF Handled, SubscriptionsFollow
    <3>2. DOMAIN subscriptions' \subseteq DOMAIN subscriptions \cup {<<ws, SubId(raw)>>}
      BY <3>1 DEF Subscribe, Without
    <3>3. IsFiniteSet(DOMAIN subscriptions \cup {<<ws, SubId(raw)>>})
      BY <2>1, FS_AddElement
    <3>4. sockets[ws] = "OPEN"
      BY <1>1 DEF Arrives
    <3> QED BY <3>2, <3>3, <3>4, <2>1, <2>3, FS_Subset
  <2> QED BY <2>2, <2>3, <1>1
<1>5. /\ quiet' \subseteq DOMAIN sent'
      /\ \A call \in calls' :
           /\ call.n \in DOMAIN sent'
           /\ call.stage = "verify" => EventOf(sent'[call.n].raw) \in Events
           /\ call.stage = "count" => Type(sent'[call.n].raw) = "COUNT"
  <2>1. /\ quiet \subseteq DOMAIN sent
        /\ \A call \in calls :
             /\ call.n \in DOMAIN sent
             /\ call.stage = "verify" => EventOf(sent[call.n].raw) \in Events
             /\ call.stage = "count" => Type(sent[call.n].raw) = "COUNT"
    BY DEF RelayShape, RawOf
  <2>2. quiet' \subseteq quiet \cup {N} /\ NewCalls(raw)
    BY <1>1 DEF Handled, Fate, NewCalls
  <2>3. ASSUME NEW call \in calls'
        PROVE  /\ call.n \in DOMAIN sent'
               /\ call.stage = "verify" => EventOf(sent'[call.n].raw) \in Events
               /\ call.stage = "count" => Type(sent'[call.n].raw) = "COUNT"
    <3>1. CASE call \in calls
      <4>1. sent'[call.n] = sent[call.n]
        BY <3>1, <2>1, <1>2
      <4> QED BY <4>1, <3>1, <2>1, <1>2
    <3>2. CASE call.n = N /\ (call.stage = "verify" => EventOf(raw) \in Events)
                          /\ (call.stage = "count" => Type(raw) = "COUNT")
      <4>1. sent'[call.n].raw = raw
        BY <3>2, <1>2
      <4> QED BY <4>1, <3>2, <1>2
    <3> QED BY <3>1, <3>2, <2>2 DEF NewCalls
  <2> QED BY <2>1, <2>2, <2>3, <1>2
<1>6. IsList(queue') /\ \A i \in DOMAIN queue' : queue'[i].ws \in Sockets /\ IsNumbered(queue'[i].message, N)
  <2>1. IsList(queue) /\ \A i \in DOMAIN queue : queue[i].ws \in Sockets /\ IsNumbered(queue[i].message, Len(sent))
    BY DEF RelayShape
  <2>2. CASE queue' = queue
    BY <2>1, <2>2, <1>3 DEF IsNumbered
  <2>3. CASE \E t : Handled(ws, raw, t)
    <3>1. PICK t : queue' = queue \o t /\ IsSpeech(t, N)
      BY <2>3 DEF Handled
    <3> QED BY <3>1, <2>1, <1>2, <1>3, QueueStaysShaped
  <2> QED BY <2>2, <2>3, <1>1
<1>7. /\ DOMAIN inbox' = Sockets
      /\ \A w \in Sockets : /\ IsList(inbox'[w])
                            /\ \A i \in DOMAIN inbox'[w] : IsNumbered(inbox'[w][i], N)
  BY <1>1, <1>3 DEF RelayShape, IsNumbered
<1>8. \A n \in DOMAIN sent' : sent'[n].ws \in Sockets /\ sent'[n].raw \in RawMessages[sent'[n].ws]
  <2>1. \A n \in DOMAIN sent : sent[n].ws \in Sockets /\ sent[n].raw \in RawMessages[sent[n].ws]
    BY DEF RelayShape
  <2>2. sent'[N].ws = ws /\ sent'[N].raw = raw
    BY <1>2
  <2> QED BY <2>1, <2>2, <1>2
<1>9. /\ info' \in Limitations \cup {None} /\ archive'.info \in Limitations \cup {None}
      /\ resetAt' \in 0..Len(sent')
  BY <1>1, <1>2, <1>3 DEF RelayShape
<1>10. RelayShape'
  BY <1>2, <1>4, <1>5, <1>6, <1>7, <1>8, <1>9, NextShape
<1> QED BY <1>4, <1>10 DEF SubscriptionsAreConnected

\* Every message stays accounted for.
LEMMA ArrivalIsAccounted ==
  ASSUME StoreInv, RelayShape, AllAccounted,
         NEW ws \in Sockets, NEW raw \in RawMessages[ws], Receive(ws, raw)
  PROVE  AllAccounted'
<1>1. /\ Arrives(ws, raw) /\ inbox' = inbox
      /\ \/ Leave({ws}) /\ UNCHANGED <<queue, calls, quiet>>
         \/ sockets' = sockets /\ \E t : Handled(ws, raw, t)
  BY ArrivalIsHandled
<1>2. /\ DOMAIN sent' = DOMAIN sent \cup {N} /\ N \notin DOMAIN sent
      /\ \A n \in DOMAIN sent : sent'[n] = sent[n] /\ n # 0 /\ n # N /\ sent[n].ws \in Sockets
      /\ sent'[N].ws = ws
  <2>1. /\ DOMAIN sent' = DOMAIN sent \cup {N} /\ N \notin DOMAIN sent
        /\ \A n \in DOMAIN sent : sent'[n] = sent[n]
        /\ sent'[N] = [ws |-> ws, raw |-> raw]
        /\ DOMAIN sent = 1..Len(sent)
    BY <1>1, SentGrows
  <2> QED BY <2>1 DEF RelayShape
<1> SUFFICES ASSUME NEW n \in DOMAIN sent', sockets'[sent'[n].ws] = "OPEN"
             PROVE  Accounted(queue', inbox'[sent'[n].ws], sent'[n].ws, n, calls', quiet')
  BY NextAccounted
<1>3. CASE Leave({ws}) /\ UNCHANGED <<queue, calls, quiet>>
  <2>1. /\ sockets'[ws] = "CLOSED"
        /\ \A w \in Sockets : sockets'[w] = "OPEN" => sockets[w] = "OPEN"
    BY <1>3 DEF Leave
  <2>2. n \in DOMAIN sent /\ sent'[n] = sent[n]
    BY <2>1, <1>2
  <2>3. Accounted(queue, inbox[sent[n].ws], sent[n].ws, n, calls, quiet)
    BY <2>1, <2>2, <1>2 DEF AllAccounted
  <2> QED BY <2>2, <2>3, <1>1, <1>3
<1>4. ASSUME sockets' = sockets, NEW t, Handled(ws, raw, t)
      PROVE  Accounted(queue', inbox'[sent'[n].ws], sent'[n].ws, n, calls', quiet')
  <2>1. /\ queue' = queue \o t /\ IsSpeech(t, N) /\ Fate(ws, N, t, calls)
        /\ IsList(queue) /\ N # 0
    BY <1>4, NextNumber DEF Handled
  <2>2. CASE n = N
    <3>1. /\ NothingSaid(queue, inbox[ws], ws, N, AnswerTypes)
          /\ CallsOf(calls, N) = {} /\ N \notin quiet
      BY NothingOfNext
    <3>2. Accounted(queue \o t, inbox[ws], ws, N, calls', quiet')
      BY <2>1, <3>1, FateIsAccounted
    <3> QED BY <3>2, <2>1, <2>2, <1>1, <1>2
  <2>3. CASE n \in DOMAIN sent
    <3> DEFINE w == sent[n].ws
    <3>1. w \in Sockets /\ sent'[n].ws = w /\ n # 0 /\ n # N
      BY <2>3, <1>2
    <3>2. Accounted(queue, inbox[w], w, n, calls, quiet)
      BY <2>3, <3>1, <1>4 DEF AllAccounted
    <3>3. CallsOf(calls', n) = CallsOf(calls, n) /\ (n \in quiet' <=> n \in quiet)
      BY <3>1, <2>1 DEF Fate, CallsOf
    <3> HIDE DEF w
    <3>4. Accounted(queue \o t, inbox[w], w, n, calls', quiet')
      BY <3>1, <3>2, <3>3, <2>1, OthersAreAccounted
    <3> QED BY <3>1, <3>4, <2>1, <1>1
  <2> QED BY <2>2, <2>3, <1>2
<1> QED BY <1>1, <1>3, <1>4

\* What was asked for stays asked for while more is sent.
LEMMA AskedStays ==
  ASSUME NEW asked, NEW s, NEW r, \A n \in asked : r[n] = s[n], NEW filters,
         AskedLast(asked, s, filters)
  PROVE  AskedLast(asked, r, filters)
BY DEF AskedLast

\* An arrival asks for one subscription at most.
LEMMA ArrivalAsks ==
  ASSUME RelayShape, NEW ws \in Sockets, NEW raw \in RawMessages[ws], Arrives(ws, raw),
         resetAt' = resetAt, NEW t, IsSpeech(t, N), NEW w \in Sockets, NEW subId
  PROVE  LET asked == AskedIn(sent, resetAt, queue, inbox[w], w, subId)
         IN /\ AskedIn(sent', resetAt', queue \o t, inbox[w], w, subId) =
                 asked \cup {n \in {N} : /\ ws = w /\ AsksFor(raw, subId)
                                         /\ NothingSaid(queue \o t, inbox[w], w, N, {"NOTICE"})}
            /\ \A n \in asked : sent'[n] = sent[n] /\ n <= N
<1> DEFINE u == queue \o t
           Asks(s, n) == s[n].ws = w /\ AsksFor(s[n].raw, subId)
           Quiet(q, n) == NothingSaid(q, inbox[w], w, n, {"NOTICE"})
<1>1. /\ Len(sent') = N /\ DOMAIN sent = 1..Len(sent) /\ Len(sent) \in Nat
      /\ \A n \in DOMAIN sent : sent'[n] = sent[n]
      /\ sent'[N] = [ws |-> ws, raw |-> raw]
  BY SentGrows
<1>2. resetAt \in 0..Len(sent) /\ N = Len(sent) + 1
  BY DEF RelayShape, N
<1>3. /\ (resetAt + 1)..N = ((resetAt + 1)..Len(sent)) \cup {N}
      /\ \A n \in (resetAt + 1)..Len(sent) : n \in DOMAIN sent /\ n # 0 /\ n # N /\ n <= N
  BY <1>1, <1>2
<1>4. \A n \in (resetAt + 1)..Len(sent) : Quiet(u, n) <=> Quiet(queue, n)
  <2> SUFFICES ASSUME NEW n \in (resetAt + 1)..Len(sent) PROVE Quiet(u, n) <=> Quiet(queue, n)
    OBVIOUS
  <2>1. n # 0 /\ n # N /\ IsList(queue)
    BY <1>3 DEF RelayShape
  <2> QED BY <2>1, OthersAreSilent
<1>5. AskedIn(sent, resetAt, queue, inbox[w], w, subId)
        = {n \in (resetAt + 1)..Len(sent) : Asks(sent, n) /\ Quiet(queue, n)}
  BY DEF AskedIn
<1>6. AskedIn(sent', resetAt', u, inbox[w], w, subId)
        = {n \in (resetAt + 1)..N : Asks(sent', n) /\ Quiet(u, n)}
  BY <1>1 DEF AskedIn
<1>7. Asks(sent', N) <=> ws = w /\ AsksFor(raw, subId)
  BY <1>1
<1>8. \A n \in (resetAt + 1)..Len(sent) : Asks(sent', n) <=> Asks(sent, n)
  BY <1>1, <1>3
<1> HIDE DEF Asks, Quiet
<1>9. AskedIn(sent', resetAt', u, inbox[w], w, subId)
        = AskedIn(sent, resetAt, queue, inbox[w], w, subId)
            \cup {n \in {N} : ws = w /\ AsksFor(raw, subId) /\ Quiet(u, N)}
  BY <1>3, <1>4, <1>5, <1>6, <1>7, <1>8
<1>10. \A n \in AskedIn(sent, resetAt, queue, inbox[w], w, subId) : sent'[n] = sent[n] /\ n <= N
  BY <1>1, <1>3, <1>5
<1> QED BY <1>9, <1>10 DEF u, Quiet

\* Every subscription stays asked for.
LEMMA ArrivalIsWanted ==
  ASSUME StoreInv, RelayShape, AllWanted,
         NEW ws \in Sockets, NEW raw \in RawMessages[ws], Receive(ws, raw)
  PROVE  AllWanted'
<1>1. /\ Arrives(ws, raw) /\ inbox' = inbox /\ resetAt' = resetAt
      /\ \/ Leave({ws}) /\ UNCHANGED <<queue, calls, quiet>>
         \/ sockets' = sockets /\ \E t : Handled(ws, raw, t)
  BY ArrivalIsHandled
<1> DEFINE Then(key) == AskedIn(sent', resetAt', queue', inbox'[key[1]], key[1], key[2])
           Now(key) == AskedIn(sent, resetAt, queue, inbox[key[1]], key[1], key[2])
<1> SUFFICES ASSUME NEW key \in DOMAIN subscriptions', sockets'[key[1]] = "OPEN"
             PROVE  AskedLast(Then(key), sent', subscriptions'[key])
  BY NextWanted
<1>2. PICK t : /\ queue' = queue \o t /\ IsSpeech(t, N)
               /\ \/ Leave({ws})
                  \/ sockets' = sockets /\ Handled(ws, raw, t)
  <2>1. CASE Leave({ws}) /\ UNCHANGED <<queue, calls, quiet>>
    <3>1. \E t : queue' = queue \o t /\ IsSpeech(t, N)
      BY <2>1, NextNumber, SilenceIsSaid
    <3> QED BY <2>1, <3>1
  <2> QED BY <2>1, <1>1 DEF Handled
<1>3. IsList(queue) /\ N # 0
  BY NextNumber
<1>4. ASSUME key[1] \in Sockets
      PROVE  /\ Then(key) = Now(key) \cup
                  {n \in {N} : /\ ws = key[1] /\ AsksFor(raw, key[2])
                               /\ NothingSaid(queue', inbox[key[1]], key[1], N, {"NOTICE"})}
             /\ \A n \in Now(key) : sent'[n] = sent[n] /\ n <= N
  <2> DEFINE w == key[1]
             subId == key[2]
             asked == AskedIn(sent, resetAt, queue, inbox[w], w, subId)
  <2>1. w \in Sockets /\ Arrives(ws, raw) /\ resetAt' = resetAt /\ IsSpeech(t, N)
    BY <1>1, <1>2, <1>4
  <2> HIDE DEF w, subId
  <2>2. /\ AskedIn(sent', resetAt', queue \o t, inbox[w], w, subId) =
             asked \cup {n \in {N} : /\ ws = w /\ AsksFor(raw, subId)
                                     /\ NothingSaid(queue \o t, inbox[w], w, N, {"NOTICE"})}
        /\ \A n \in asked : sent'[n] = sent[n] /\ n <= N
    BY <2>1, ArrivalAsks
  <2>3. queue' = queue \o t /\ inbox' = inbox
    BY <1>1, <1>2
  <2> QED BY <2>2, <2>3 DEF w, subId
<1>5. ASSUME key \in DOMAIN subscriptions, subscriptions'[key] = subscriptions[key],
             sockets[key[1]] = "OPEN",
             ~(/\ ws = key[1] /\ AsksFor(raw, key[2])
               /\ NothingSaid(queue', inbox[key[1]], key[1], N, {"NOTICE"}))
      PROVE  AskedLast(Then(key), sent', subscriptions'[key])
  <2>1. key[1] \in Sockets
    BY <1>5 DEF RelayShape
  <2>2. AskedLast(Now(key), sent, subscriptions[key])
    BY <1>5 DEF AllWanted
  <2> HIDE DEF Then, Now
  <2>3. Then(key) = Now(key) /\ \A n \in Now(key) : sent'[n] = sent[n]
    BY <2>1, <1>4, <1>5
  <2> QED BY <2>2, <2>3, <1>5, AskedStays
<1>6. CASE Leave({ws})
  <2>1. /\ sockets'[ws] = "CLOSED"
        /\ \A w \in Sockets : sockets'[w] = "OPEN" => sockets[w] = "OPEN"
        /\ key \in DOMAIN subscriptions /\ subscriptions'[key] = subscriptions[key]
    BY <1>6 DEF Leave, Without
  <2>2. key[1] \in Sockets
    BY <2>1 DEF RelayShape
  <2> QED BY <2>1, <2>2, <1>5
<1>7. ASSUME sockets' = sockets, Handled(ws, raw, t)
      PROVE  AskedLast(Then(key), sent', subscriptions'[key])
  <2>1. /\ NothingSaid(queue, inbox[ws], ws, N, AnswerTypes)
        /\ NothingSaid(queue, inbox[ws], ws, N, {"NOTICE"})
    BY NothingOfNext
  <2>2. CASE subscriptions' = subscriptions /\ (Notices(t, ws, N) \/ Type(raw) \notin {"REQ", "CLOSE"})
    <3>1. Notices(t, ws, N) => ~NothingSaid(queue', inbox[ws], ws, N, {"NOTICE"})
      BY <2>1, <1>2, <1>3, AnswerIsSaid
    <3>2. Type(raw) \notin {"REQ", "CLOSE"} => ~AsksFor(raw, key[2])
      BY DEF AsksFor
    <3> QED BY <3>1, <3>2, <2>2, <1>5, <1>7
  <2>3. CASE /\ Type(raw) = "REQ" /\ Subscribe(ws, SubId(raw), FiltersOf(raw))
             /\ AsksFor(raw, SubId(raw))
             /\ SaysNothing(t, N) \/ SaysOnce(t, ws, N)
    <3>1. CASE key = <<ws, SubId(raw)>>
      <4>1. key[1] = ws /\ key[2] = SubId(raw) /\ subscriptions'[key] = FiltersOf(raw)
        BY <2>3, <3>1 DEF Subscribe
      <4>2. NothingSaid(queue \o t, inbox[ws], ws, N, {"NOTICE"})
        <5>1. CASE SaysNothing(t, N)
          BY <5>1, <2>1, <1>2, <1>3, OthersAreSilent
        <5>2. CASE SaysOnce(t, ws, N)
          BY <5>2, <2>1, <1>2, <1>3, AnswerIsSaid
        <5> QED BY <5>1, <5>2, <2>3
      <4>3. N \in Then(key) /\ (\A n \in Then(key) : n <= N) /\ sent'[N].raw = raw
        <5>1. /\ Then(key) = Now(key) \cup
                  {n \in {N} : /\ ws = key[1] /\ AsksFor(raw, key[2])
                               /\ NothingSaid(queue', inbox[key[1]], key[1], N, {"NOTICE"})}
              /\ \A n \in Now(key) : n <= N
          BY <4>1, <1>4
        <5>2. sent'[N].raw = raw /\ N <= N
          <6>1. sent'[N] = [ws |-> ws, raw |-> raw]
            BY <1>1, SentGrows
          <6>2. N \in Nat
            BY NextNumber
          <6> QED BY <6>1, <6>2
        <5>3. /\ ws = key[1] /\ AsksFor(raw, key[2])
              /\ NothingSaid(queue', inbox[key[1]], key[1], N, {"NOTICE"})
          <6>1. ws = key[1] /\ AsksFor(raw, key[2])
            BY <4>1, <2>3
          <6>2. NothingSaid(queue', inbox[ws], ws, N, {"NOTICE"})
            BY <4>2, <1>2
          <6> QED BY <6>1, <6>2
        <5> HIDE DEF Then, Now
        <5> QED BY <5>1, <5>2, <5>3
      <4> HIDE DEF Then
      <4> QED BY <4>1, <4>3, <2>3 DEF AskedLast
    <3>2. CASE key # <<ws, SubId(raw)>>
      <4>1. key \in DOMAIN subscriptions /\ subscriptions'[key] = subscriptions[key]
        BY <2>3, <3>2 DEF Subscribe
      <4>2. key = <<key[1], key[2]>>
        BY <4>1 DEF RelayShape
      <4>3. ~(ws = key[1] /\ AsksFor(raw, key[2]))
        BY <3>2, <4>2 DEF AsksFor
      <4> QED BY <4>1, <4>3, <1>5, <1>7
    <3> QED BY <3>1, <3>2
  <2>4. CASE Type(raw) = "CLOSE" /\ subscriptions' = Without({<<ws, SubId(raw)>>})
    <3>1. /\ key \in DOMAIN subscriptions /\ subscriptions'[key] = subscriptions[key]
          /\ key # <<ws, SubId(raw)>>
      BY <2>4 DEF Without
    <3>2. key = <<key[1], key[2]>>
      BY <3>1 DEF RelayShape
    <3>3. ~(ws = key[1] /\ AsksFor(raw, key[2]))
      BY <3>1, <3>2 DEF AsksFor
    <3> QED BY <3>1, <3>3, <1>5, <1>7
  <2> QED BY <2>2, <2>3, <2>4, <1>7 DEF Handled, SubscriptionsFollow
<1> QED BY <1>2, <1>6, <1>7

-----------------------------------------------------------------------------
(***************************************************************************)
(* So do the other steps.                                                  *)
(***************************************************************************)

\* What a client asked for is the same while the same NOTICEs have been said.
LEMMA AskedIsSame ==
  ASSUME NEW s, NEW from, NEW q, NEW p, NEW b, NEW c, NEW w, NEW subId,
         \A n \in (from + 1)..Len(s) :
           s[n].ws = w /\ AsksFor(s[n].raw, subId) =>
             (NothingSaid(p, c, w, n, {"NOTICE"}) <=> NothingSaid(q, b, w, n, {"NOTICE"}))
  PROVE  AskedIn(s, from, p, c, w, subId) = AskedIn(s, from, q, b, w, subId)
BY DEF AskedIn

\* The numbers of the messages sent.
LEMMA NumbersSent ==
  ASSUME RelayShape
  PROVE  /\ Len(sent) \in Nat /\ DOMAIN sent = 1..Len(sent)
         /\ \A n \in DOMAIN sent : n # 0 /\ n \in 0..Len(sent) /\ sent[n].ws \in Sockets
         /\ \A n \in (resetAt + 1)..Len(sent) : n \in DOMAIN sent
<1>1. Len(sent) \in Nat /\ DOMAIN sent = 1..Len(sent)
  BY ListProperties DEF RelayShape
<1>2. resetAt \in 0..Len(sent) /\ \A n \in DOMAIN sent : sent[n].ws \in Sockets
  BY DEF RelayShape
<1> QED BY <1>1, <1>2

\* A handling that goes on keeps the invariant.
LEMMA SettleKeeps ==
  ASSUME RelayShape, SubscriptionsAreConnected, AllAccounted, AllWanted,
         NEW call \in calls, Settle(call)
  PROVE  RelayShape' /\ SubscriptionsAreConnected' /\ AllAccounted' /\ AllWanted'
<1> DEFINE k == call.n
           ws == WsOf(call)
<1>1. UNCHANGED <<sockets, subscriptions, info, archive, sent, resetAt, inbox>>
  BY CallIsSettled
<1>2. PICK t : Settled(call, t)
  BY CallIsSettled
<1>3. /\ queue' = queue \o t /\ IsSpeech(t, k) /\ Fate(ws, k, t, calls \ {call})
      /\ SaysNothing(t, k) \/ SaysOnce(t, ws, k) \/ Type(RawOf(call)) = "COUNT"
      /\ \A c \in calls' : c \in calls \/ (c.n = k /\ c.stage = "event")
  BY <1>2 DEF Settled
<1>4. /\ IsList(queue) /\ Len(sent) \in Nat
      /\ \A n \in DOMAIN sent : n # 0 /\ n \in 0..Len(sent) /\ sent[n].ws \in Sockets
      /\ \A n \in (resetAt + 1)..Len(sent) : n \in DOMAIN sent
      /\ k \in DOMAIN sent /\ ws = sent[k].ws /\ RawOf(call) = sent[k].raw
  BY NumbersSent DEF RelayShape, WsOf, RawOf
<1>5. RelayShape'
  <2>1. IsList(queue') /\ \A i \in DOMAIN queue' : queue'[i].ws \in Sockets /\ IsNumbered(queue'[i].message, Len(sent))
    <3>1. \A i \in DOMAIN queue : queue[i].ws \in Sockets /\ IsNumbered(queue[i].message, Len(sent))
      BY DEF RelayShape
    <3>2. k \in 0..Len(sent) /\ Len(sent) <= Len(sent)
      BY <1>4
    <3> HIDE DEF k
    <3> QED BY <3>1, <3>2, <1>3, <1>4, QueueStaysShaped
  <2>2. quiet' \subseteq DOMAIN sent
    <3>1. quiet' \subseteq quiet \cup {k} /\ quiet \subseteq DOMAIN sent
      BY <1>3 DEF Fate, RelayShape
    <3> QED BY <3>1, <1>4
  <2>3. \A c \in calls' :
          /\ c.n \in DOMAIN sent
          /\ c.stage = "verify" => EventOf(sent[c.n].raw) \in Events
          /\ c.stage = "count" => Type(sent[c.n].raw) = "COUNT"
    <3>1. \A c \in calls :
            /\ c.n \in DOMAIN sent
            /\ c.stage = "verify" => EventOf(sent[c.n].raw) \in Events
            /\ c.stage = "count" => Type(sent[c.n].raw) = "COUNT"
      BY DEF RelayShape, RawOf
    <3> QED BY <3>1, <1>3, <1>4
  <2>4. /\ sockets \in [Sockets -> {"OPEN", "CLOSING", "CLOSED"}]
        /\ IsFiniteSet(DOMAIN subscriptions)
        /\ \A key \in DOMAIN subscriptions : key = <<key[1], key[2]>> /\ key[1] \in Sockets
        /\ info \in Limitations \cup {None} /\ archive.info \in Limitations \cup {None}
        /\ IsList(sent)
        /\ \A n \in DOMAIN sent : sent[n].ws \in Sockets /\ sent[n].raw \in RawMessages[sent[n].ws]
        /\ resetAt \in 0..Len(sent)
        /\ DOMAIN inbox = Sockets
        /\ \A w \in Sockets : /\ IsList(inbox[w])
                              /\ \A i \in DOMAIN inbox[w] : IsNumbered(inbox[w][i], Len(sent))
    BY DEF RelayShape
  <2> QED BY <2>1, <2>2, <2>3, <2>4, <1>1, NextShape
<1>6. SubscriptionsAreConnected'
  BY <1>1 DEF SubscriptionsAreConnected
<1>7. sockets[ws] = "OPEN" =>
        /\ NothingSaid(queue, inbox[ws], ws, k, AnswerTypes)
        /\ CallsOf(calls \ {call}, k) = {} /\ k \notin quiet
  <2> SUFFICES ASSUME sockets[ws] = "OPEN"
               PROVE  /\ NothingSaid(queue, inbox[ws], ws, k, AnswerTypes)
                      /\ CallsOf(calls \ {call}, k) = {} /\ k \notin quiet
    OBVIOUS
  <2>1. Accounted(queue, inbox[ws], ws, k, calls, quiet)
    BY <1>4 DEF AllAccounted
  <2>2. call \in CallsOf(calls, k)
    BY DEF CallsOf
  <2>3. NothingSaid(queue, inbox[ws], ws, k, AnswerTypes) /\ IsSingle(CallsOf(calls, k)) /\ k \notin quiet
    BY <2>1, <2>2 DEF Accounted
  <2>4. CallsOf(calls, k) = {call}
    BY <2>2, <2>3 DEF IsSingle
  <2>5. CallsOf(calls \ {call}, k) = {}
    BY <2>4 DEF CallsOf
  <2> QED BY <2>3, <2>5
<1>8. AllAccounted'
  <2> SUFFICES ASSUME NEW n \in DOMAIN sent, sockets[sent[n].ws] = "OPEN"
               PROVE  Accounted(queue', inbox[sent[n].ws], sent[n].ws, n, calls', quiet')
    BY <1>1, NextAccounted
  <2>1. CASE n = k
    <3>1. /\ NothingSaid(queue, inbox[ws], ws, k, AnswerTypes)
          /\ CallsOf(calls \ {call}, k) = {} /\ k \notin quiet /\ k # 0
      BY <2>1, <1>4, <1>7
    <3> HIDE DEF k, ws
    <3>2. Accounted(queue \o t, inbox[ws], ws, k, calls', quiet')
      BY <3>1, <1>3, <1>4, FateIsAccounted
    <3> QED BY <3>2, <2>1, <1>3, <1>4
  <2>2. CASE n # k
    <3> DEFINE w == sent[n].ws
    <3>1. Accounted(queue, inbox[w], w, n, calls, quiet)
      BY DEF AllAccounted
    <3>2. CallsOf(calls', n) = CallsOf(calls, n) /\ (n \in quiet' <=> n \in quiet)
      BY <2>2, <1>3 DEF Fate, CallsOf
    <3>3. n # 0
      BY <1>4
    <3> HIDE DEF w, k
    <3>4. Accounted(queue \o t, inbox[w], w, n, calls', quiet')
      BY <2>2, <3>1, <3>2, <3>3, <1>3, <1>4, OthersAreAccounted
    <3> QED BY <3>4, <1>3 DEF w
  <2> QED BY <2>1, <2>2
<1>9. AllWanted'
  <2> SUFFICES ASSUME NEW key \in DOMAIN subscriptions, sockets[key[1]] = "OPEN"
               PROVE  AskedLast(AskedIn(sent, resetAt, queue', inbox[key[1]], key[1], key[2]), sent,
                                subscriptions[key])
    BY <1>1, NextWanted
  <2> DEFINE w == key[1]
             subId == key[2]
  <2>1. ASSUME NEW n \in (resetAt + 1)..Len(sent), sent[n].ws = w /\ AsksFor(sent[n].raw, subId)
        PROVE  NothingSaid(queue', inbox[w], w, n, {"NOTICE"}) <=> NothingSaid(queue, inbox[w], w, n, {"NOTICE"})
    <3>1. n \in DOMAIN sent /\ n # 0
      BY <1>4
    <3>2. CASE n # k \/ SaysNothing(t, k)
      <4>1. n # k \/ SaysNothing(t, n)
        BY <3>2
      <4> HIDE DEF w, k
      <4>2. NothingSaid(queue \o t, inbox[w], w, n, {"NOTICE"}) <=> NothingSaid(queue, inbox[w], w, n, {"NOTICE"})
        BY <4>1, <3>1, <3>2, <1>3, <1>4, OthersAreSilent
      <4> QED BY <4>2, <1>3
    <3>3. CASE n = k /\ SaysOnce(t, ws, k)
      <4>1. w = ws /\ NothingSaid(queue, inbox[ws], ws, k, AnswerTypes)
        BY <3>3, <2>1, <1>4, <1>7
      <4> HIDE DEF w, ws, k
      <4>2. NothingSaid(queue \o t, inbox[ws], ws, k, {"NOTICE"}) <=> NothingSaid(queue, inbox[ws], ws, k, {"NOTICE"})
        BY <4>1, <3>3, <1>3, <1>4, AnswerIsSaid
      <4> QED BY <4>1, <4>2, <3>3, <1>3
    <3>4. CASE n = k /\ Type(RawOf(call)) = "COUNT"
      BY <3>4, <2>1, <1>4 DEF AsksFor
    <3> QED BY <3>2, <3>3, <3>4, <1>3
  <2>2. AskedLast(AskedIn(sent, resetAt, queue, inbox[w], w, subId), sent, subscriptions[key])
    BY DEF AllWanted
  <2> HIDE DEF w, subId
  <2>3. AskedIn(sent, resetAt, queue', inbox[w], w, subId) = AskedIn(sent, resetAt, queue, inbox[w], w, subId)
    BY <2>1, AskedIsSame
  <2> QED BY <2>2, <2>3 DEF w, subId
<1> QED BY <1>5, <1>6, <1>8, <1>9

\* So does a call of the test, or the end of a connection,
LEMMA UndisturbedKeeps ==
  ASSUME RelayShape, SubscriptionsAreConnected, AllAccounted, AllWanted, NEW t, Undisturbed(t)
  PROVE  RelayShape' /\ SubscriptionsAreConnected' /\ AllAccounted' /\ AllWanted'
<1>1. /\ queue' = queue \o t /\ IsSpeech(t, 0)
      /\ UNCHANGED <<inbox, calls, quiet, sent>>
      /\ info' \in Limitations \cup {None} /\ archive'.info \in Limitations \cup {None}
      /\ \/ Thinned /\ resetAt' = resetAt
         \/ sockets' = sockets /\ subscriptions' = None /\ resetAt' = Len(sent)
  BY DEF Undisturbed
<1>2. /\ IsList(queue) /\ Len(sent) \in Nat
      /\ \A n \in DOMAIN sent : n # 0 /\ n \in 0..Len(sent) /\ sent[n].ws \in Sockets
      /\ \A n \in (resetAt + 1)..Len(sent) : n \in DOMAIN sent
  BY NumbersSent DEF RelayShape
<1>3. /\ sockets' \in [Sockets -> {"OPEN", "CLOSING", "CLOSED"}]
      /\ \A w \in Sockets : sockets'[w] = "OPEN" => sockets[w] = "OPEN"
      /\ IsFiniteSet(DOMAIN subscriptions')
      /\ \A key \in DOMAIN subscriptions' :
           key = <<key[1], key[2]>> /\ key[1] \in Sockets /\ sockets'[key[1]] # "CLOSED"
      /\ resetAt' \in 0..Len(sent)
  <2>1. /\ IsFiniteSet(DOMAIN subscriptions) /\ resetAt \in 0..Len(sent)
        /\ \A key \in DOMAIN subscriptions : key = <<key[1], key[2]>> /\ key[1] \in Sockets
        /\ sockets \in [Sockets -> {"OPEN", "CLOSING", "CLOSED"}]
    BY DEF RelayShape
  <2>2. CASE Thinned /\ resetAt' = resetAt
    BY <2>1, <2>2, FS_Subset DEF Thinned
  <2>3. CASE sockets' = sockets /\ subscriptions' = None /\ resetAt' = Len(sent)
    <3>1. DOMAIN subscriptions' = {}
      BY <2>3 DEF None
    <3> QED BY <3>1, <2>1, <2>3, <1>2, FS_EmptySet
  <2> QED BY <2>2, <2>3, <1>1
<1>4. RelayShape'
  <2>1. IsList(queue') /\ \A i \in DOMAIN queue' : queue'[i].ws \in Sockets /\ IsNumbered(queue'[i].message, Len(sent))
    <3>1. \A i \in DOMAIN queue : queue[i].ws \in Sockets /\ IsNumbered(queue[i].message, Len(sent))
      BY DEF RelayShape
    <3>2. 0 \in 0..Len(sent) /\ Len(sent) <= Len(sent)
      BY <1>2
    <3> QED BY <3>1, <3>2, <1>1, <1>2, QueueStaysShaped
  <2>2. /\ quiet \subseteq DOMAIN sent
        /\ \A c \in calls :
             /\ c.n \in DOMAIN sent
             /\ c.stage = "verify" => EventOf(sent[c.n].raw) \in Events
             /\ c.stage = "count" => Type(sent[c.n].raw) = "COUNT"
        /\ IsList(sent)
        /\ \A n \in DOMAIN sent : sent[n].ws \in Sockets /\ sent[n].raw \in RawMessages[sent[n].ws]
        /\ DOMAIN inbox = Sockets
        /\ \A w \in Sockets : /\ IsList(inbox[w])
                              /\ \A i \in DOMAIN inbox[w] : IsNumbered(inbox[w][i], Len(sent))
    BY DEF RelayShape, RawOf
  <2> QED BY <2>1, <2>2, <1>1, <1>3, NextShape
<1>5. SubscriptionsAreConnected'
  BY <1>3 DEF SubscriptionsAreConnected
<1>6. AllAccounted'
  <2> SUFFICES ASSUME NEW n \in DOMAIN sent, sockets'[sent[n].ws] = "OPEN"
               PROVE  Accounted(queue', inbox[sent[n].ws], sent[n].ws, n, calls, quiet)
    BY <1>1, NextAccounted
  <2> DEFINE w == sent[n].ws
  <2>1. Accounted(queue, inbox[w], w, n, calls, quiet)
    BY <1>2, <1>3 DEF AllAccounted
  <2>2. n # 0
    BY <1>2
  <2> HIDE DEF w
  <2>3. Accounted(queue \o t, inbox[w], w, n, calls, quiet)
    BY <2>1, <2>2, <1>1, <1>2, OthersAreAccounted
  <2> QED BY <2>3, <1>1 DEF w
<1>7. AllWanted'
  <2> SUFFICES ASSUME NEW key \in DOMAIN subscriptions', sockets'[key[1]] = "OPEN"
               PROVE  AskedLast(AskedIn(sent, resetAt', queue', inbox[key[1]], key[1], key[2]), sent,
                                subscriptions'[key])
    BY <1>1, NextWanted
  <2>1. subscriptions' # None
    BY DEF None
  <2>2. /\ resetAt' = resetAt /\ key \in DOMAIN subscriptions
        /\ subscriptions'[key] = subscriptions[key] /\ sockets[key[1]] = "OPEN"
    BY <2>1, <1>1, <1>3 DEF Thinned
  <2> DEFINE w == key[1]
             subId == key[2]
  <2>3. AskedLast(AskedIn(sent, resetAt, queue, inbox[w], w, subId), sent, subscriptions[key])
    BY <2>2 DEF AllWanted
  <2> HIDE DEF w, subId
  <2>4. ASSUME NEW n \in (resetAt + 1)..Len(sent)
        PROVE  NothingSaid(queue', inbox[w], w, n, {"NOTICE"}) <=> NothingSaid(queue, inbox[w], w, n, {"NOTICE"})
    <3>1. n # 0
      BY <1>2
    <3>2. NothingSaid(queue \o t, inbox[w], w, n, {"NOTICE"}) <=> NothingSaid(queue, inbox[w], w, n, {"NOTICE"})
      BY <3>1, <1>1, <1>2, OthersAreSilent
    <3> QED BY <3>2, <1>1
  <2>5. AskedIn(sent, resetAt, queue', inbox[w], w, subId) = AskedIn(sent, resetAt, queue, inbox[w], w, subId)
    BY <2>4, AskedIsSame
  <2> QED BY <2>2, <2>3, <2>5 DEF w, subId
<1> QED BY <1>4, <1>5, <1>6, <1>7

\* and a delivery.
LEMMA DeliverKeeps ==
  ASSUME RelayShape, SubscriptionsAreConnected, AllAccounted, AllWanted, Deliver
  PROVE  RelayShape' /\ SubscriptionsAreConnected' /\ AllAccounted' /\ AllWanted'
<1> DEFINE task == Head(queue)
<1>1. /\ queue # <<>> /\ queue' = Tail(queue)
      /\ inbox' = IF sockets[task.ws] = "OPEN"
                    THEN [inbox EXCEPT ![task.ws] = Append(@, task.message)] ELSE inbox
      /\ UNCHANGED <<sockets, subscriptions, info, archive, calls, sent, quiet, resetAt>>
  BY DEF Deliver, config, history
<1>2. /\ IsList(queue) /\ Len(sent) \in Nat
      /\ \A n \in DOMAIN sent : n # 0 /\ n \in 0..Len(sent) /\ sent[n].ws \in Sockets
      /\ \A n \in (resetAt + 1)..Len(sent) : n \in DOMAIN sent
      /\ DOMAIN inbox = Sockets /\ \A w \in Sockets : IsList(inbox[w])
  BY NumbersSent DEF RelayShape
<1>3. /\ IsList(Tail(queue)) /\ Len(queue) \in Nat \ {0}
      /\ Len(Tail(queue)) = Len(queue) - 1
      /\ task = queue[1]
      /\ \A i \in 1..Len(Tail(queue)) : Tail(queue)[i] = queue[i + 1]
      /\ DOMAIN queue = 1..Len(queue) /\ DOMAIN Tail(queue) = 1..Len(Tail(queue))
  BY <1>1, <1>2, ListTail, ListProperties
<1>4. \A i \in DOMAIN queue : queue[i].ws \in Sockets /\ IsNumbered(queue[i].message, Len(sent))
  BY DEF RelayShape
<1>5. task.ws \in Sockets /\ IsNumbered(task.message, Len(sent))
  BY <1>3, <1>4
<1> HIDE DEF task
<1>6. /\ DOMAIN inbox' = Sockets
      /\ \A w \in Sockets :
           inbox'[w] = IF sockets[w] = "OPEN" /\ task.ws = w THEN Append(inbox[w], task.message) ELSE inbox[w]
  BY <1>1, <1>2, <1>5
<1>7. RelayShape'
  <2>1. IsList(queue') /\ \A i \in DOMAIN queue' : queue'[i].ws \in Sockets /\ IsNumbered(queue'[i].message, Len(sent))
    <3>1. \A i \in 1..(Len(queue) - 1) : i + 1 \in 1..Len(queue)
      BY <1>3
    <3> QED BY <3>1, <1>1, <1>3, <1>4
  <2>2. \A w \in Sockets : /\ IsList(inbox'[w])
                           /\ \A i \in DOMAIN inbox'[w] : IsNumbered(inbox'[w][i], Len(sent))
    <3> SUFFICES ASSUME NEW w \in Sockets
                 PROVE  IsList(inbox'[w]) /\ \A i \in DOMAIN inbox'[w] : IsNumbered(inbox'[w][i], Len(sent))
      OBVIOUS
    <3> DEFINE box == inbox[w]
    <3>1. IsList(box) /\ \A i \in DOMAIN box : IsNumbered(box[i], Len(sent))
      BY DEF RelayShape
    <3>2. CASE inbox'[w] = box
      BY <3>1, <3>2
    <3>3. CASE inbox'[w] = Append(box, task.message)
      <4> HIDE DEF box
      <4> DEFINE b == Append(box, task.message)
      <4>1. /\ IsList(b) /\ Len(b) = Len(box) + 1
            /\ \A i \in 1..Len(box) : b[i] = box[i]
            /\ b[Len(box) + 1] = task.message
        BY <3>1, ListAppended
      <4>2. DOMAIN b = 1..(Len(box) + 1) /\ DOMAIN box = 1..Len(box) /\ Len(box) \in Nat
        BY <3>1, <4>1, ListProperties
      <4> HIDE DEF b
      <4>3. \A i \in 1..(Len(box) + 1) : i \in 1..Len(box) \/ i = Len(box) + 1
        BY <4>2
      <4>4. \A i \in DOMAIN b : IsNumbered(b[i], Len(sent))
        BY <3>1, <4>1, <4>2, <4>3, <1>5
      <4> QED BY <3>3, <4>1, <4>4 DEF b
    <3> QED BY <3>2, <3>3, <1>6
  <2>3. /\ sockets \in [Sockets -> {"OPEN", "CLOSING", "CLOSED"}]
        /\ IsFiniteSet(DOMAIN subscriptions)
        /\ \A key \in DOMAIN subscriptions : key = <<key[1], key[2]>> /\ key[1] \in Sockets
        /\ info \in Limitations \cup {None} /\ archive.info \in Limitations \cup {None}
        /\ IsList(sent)
        /\ \A n \in DOMAIN sent : sent[n].ws \in Sockets /\ sent[n].raw \in RawMessages[sent[n].ws]
        /\ resetAt \in 0..Len(sent)
        /\ quiet \subseteq DOMAIN sent
        /\ \A c \in calls :
             /\ c.n \in DOMAIN sent
             /\ c.stage = "verify" => EventOf(sent[c.n].raw) \in Events
             /\ c.stage = "count" => Type(sent[c.n].raw) = "COUNT"
    BY DEF RelayShape, RawOf
  <2> QED BY <2>1, <2>2, <2>3, <1>1, <1>6, NextShape
<1>8. SubscriptionsAreConnected'
  BY <1>1 DEF SubscriptionsAreConnected
<1>9. ASSUME NEW w \in Sockets, sockets[w] = "OPEN", NEW n, NEW T
      PROVE  /\ NothingSaid(queue, inbox[w], w, n, T) <=> NothingSaid(queue', inbox'[w], w, n, T)
             /\ SaidOnce(queue, inbox[w], w, n, T) => SaidOnce(queue', inbox'[w], w, n, T)
  <2> DEFINE box == inbox[w]
             after == inbox'[w]
  <2>1. after = AfterDelivery(queue, box, w)
    BY <1>6, <1>9 DEF task, AfterDelivery
  <2>2. IsList(box)
    BY <1>2
  <2> HIDE DEF box, after
  <2>3. /\ NothingSaid(queue, box, w, n, T)
             <=> NothingSaid(Tail(queue), AfterDelivery(queue, box, w), w, n, T)
        /\ SaidOnce(queue, box, w, n, T)
             => SaidOnce(Tail(queue), AfterDelivery(queue, box, w), w, n, T)
    <3>1. IsList(queue) /\ queue # <<>>
      BY <1>1, <1>2
    <3> QED BY <2>2, <3>1, Delivered
  <2> QED BY <2>1, <2>3, <1>1 DEF box, after
<1>10. AllAccounted'
  <2> SUFFICES ASSUME NEW n \in DOMAIN sent, sockets[sent[n].ws] = "OPEN"
               PROVE  Accounted(queue', inbox'[sent[n].ws], sent[n].ws, n, calls, quiet)
    BY <1>1, NextAccounted
  <2>1. sent[n].ws \in Sockets /\ Accounted(queue, inbox[sent[n].ws], sent[n].ws, n, calls, quiet)
    BY <1>2 DEF AllAccounted
  <2> QED BY <2>1, <1>9 DEF Accounted
<1>11. AllWanted'
  <2> SUFFICES ASSUME NEW key \in DOMAIN subscriptions, sockets[key[1]] = "OPEN"
               PROVE  AskedLast(AskedIn(sent, resetAt, queue', inbox'[key[1]], key[1], key[2]), sent,
                                subscriptions[key])
    BY <1>1, NextWanted
  <2> DEFINE w == key[1]
             subId == key[2]
  <2>1. w \in Sockets
    BY DEF RelayShape
  <2>2. AskedLast(AskedIn(sent, resetAt, queue, inbox[w], w, subId), sent, subscriptions[key])
    BY DEF AllWanted
  <2>3. \A n : NothingSaid(queue', inbox'[w], w, n, {"NOTICE"}) <=> NothingSaid(queue, inbox[w], w, n, {"NOTICE"})
    BY <2>1, <1>9
  <2> HIDE DEF w, subId
  <2>4. AskedIn(sent, resetAt, queue', inbox'[w], w, subId) = AskedIn(sent, resetAt, queue, inbox[w], w, subId)
    BY <2>3, AskedIsSame
  <2> QED BY <2>2, <2>4 DEF w, subId
<1> QED BY <1>7, <1>8, <1>10, <1>11

\* The relay keeps its invariant.
LEMMA RelayInvHolds == RelaySpec => []RelayInv
<1>1. RelayInit => RelayInv
  <2> SUFFICES ASSUME RelayInit PROVE RelayInv
    OBVIOUS
  <2>1. StoreInv
    BY InitialStore DEF RelayInit
  <2>2. DOMAIN sent = {} /\ IsList(sent) /\ Len(sent) = 0 /\ IsList(queue) /\ DOMAIN queue = {}
    BY ShortLists DEF RelayInit
  <2>3. DOMAIN subscriptions = {}
    BY DEF RelayInit, None
  <2>4. \A ws \in Sockets : IsList(inbox[ws]) /\ DOMAIN inbox[ws] = {}
    BY ShortLists DEF RelayInit
  <2>5. RelayShape
    BY <2>2, <2>3, <2>4, FS_EmptySet DEF RelayInit, RelayShape
  <2>6. SubscriptionsAreConnected /\ AllAccounted /\ AllWanted
    BY <2>2, <2>3 DEF SubscriptionsAreConnected, AllAccounted, AllWanted
  <2> QED BY <2>1, <2>5, <2>6 DEF RelayInv
<1>2. RelayInv /\ [RelayNext]_relayVars => RelayInv'
  <2> SUFFICES ASSUME RelayInv, [RelayNext]_relayVars PROVE RelayInv'
    OBVIOUS
  <2>1. StoreInv /\ RelayShape /\ SubscriptionsAreConnected /\ AllAccounted /\ AllWanted
    BY DEF RelayInv
  <2>2. StoreInv'
    BY <2>1, RelayStepOfStore, StoreStep
  <2> SUFFICES RelayShape' /\ SubscriptionsAreConnected' /\ AllAccounted' /\ AllWanted'
    BY <2>2 DEF RelayInv
  <2>3. ASSUME NEW ws \in Sockets, NEW raw \in RawMessages[ws], Receive(ws, raw)
        PROVE  RelayShape' /\ SubscriptionsAreConnected' /\ AllAccounted' /\ AllWanted'
    BY <2>1, <2>3, ArrivalIsShaped, ArrivalIsAccounted, ArrivalIsWanted
  <2>4. ASSUME NEW ws \in Sockets, CloseSocket(ws) \/ FinishClose(ws)
        PROVE  RelayShape' /\ SubscriptionsAreConnected' /\ AllAccounted' /\ AllWanted'
    BY <2>1, <2>4, ClosingIsUndisturbing, UndisturbedKeeps
  <2>5. ASSUME NEW call \in calls, Settle(call)
        PROVE  RelayShape' /\ SubscriptionsAreConnected' /\ AllAccounted' /\ AllWanted'
    BY <2>1, <2>5, SettleKeeps
  <2>6. CASE Deliver
    BY <2>1, <2>6, DeliverKeeps
  <2>7. CASE Test
    BY <2>1, <2>7, TestIsUndisturbing, UndisturbedKeeps
  <2>8. CASE UNCHANGED relayVars
    <3>1. UNCHANGED <<sockets, subscriptions, info, archive, sent, resetAt, inbox, queue, calls, quiet>>
      BY <2>8 DEF relayVars, config, history
    <3>2. AllAccounted'
      BY <2>1, <3>1, NextAccounted DEF AllAccounted
    <3>3. AllWanted'
      BY <2>1, <3>1, NextWanted DEF AllWanted
    <3>4. RelayShape'
      BY <2>1, <3>1, NextShape DEF RelayShape, RawOf
    <3> QED BY <2>1, <3>1, <3>2, <3>3, <3>4 DEF SubscriptionsAreConnected
  <2> QED BY <2>3, <2>4, <2>5, <2>6, <2>7, <2>8 DEF RelayNext
<1> QED BY <1>1, <1>2, PTL DEF RelaySpec

-----------------------------------------------------------------------------
(***************************************************************************)
(* The theorems.                                                           *)
(***************************************************************************)

\* Whatever clients send and the test calls, the relay changes its store by the
\* operations of the store only: what is proved of them holds of the relay.
THEOREM RelayUsesTheStore == RelaySpec => Spec
<1>1. RelayInit => Init
  BY DEF RelayInit
<1>2. RelayInv /\ [RelayNext]_relayVars => [Next]_vars
  BY RelayStepOfStore DEF RelayInv
<1> QED BY <1>1, <1>2, RelayInvHolds, PTL DEF RelaySpec, Spec

\* For any clients, messages, limits and handlers: a socket that has gone leaves no
\* subscription, whatever is still being handled for it.
THEOREM NoneIsLeftBehind == RelaySpec => []SubscriptionsAreConnected
<1>1. RelayInv => SubscriptionsAreConnected
  BY DEF RelayInv
<1> QED BY <1>1, RelayInvHolds, PTL

\* Answers(n), told from the places of what has been said and is on its way.
LEMMA AnswersCounted ==
  ASSUME RelayShape, NEW n \in DOMAIN sent
  PROVE  LET ws == sent[n].ws
         IN /\ NothingSaid(queue, inbox[ws], ws, n, AnswerTypes) => Cardinality(Answers(n)) = 0
            /\ SaidOnce(queue, inbox[ws], ws, n, AnswerTypes) => Cardinality(Answers(n)) = 1
<1> DEFINE ws == sent[n].ws
           G == Given(inbox[ws], n, AnswerTypes)
           D == Due(queue, ws, n, AnswerTypes)
<1>1. ws \in Sockets
  BY NumbersSent
<1>2. \A type \in MessageTypes : type # "EVENT" <=> type \in AnswerTypes
  BY DEF MessageTypes, AnswerTypes
<1>3. /\ \A i \in DOMAIN queue : queue[i].message.type \in MessageTypes
      /\ \A i \in DOMAIN inbox[ws] : inbox[ws][i].type \in MessageTypes
  BY <1>1 DEF RelayShape, IsNumbered
<1> HIDE DEF ws
<1>4. /\ \A i \in DOMAIN queue : queue[i].message.type # "EVENT" <=> queue[i].message.type \in AnswerTypes
      /\ \A i \in DOMAIN inbox[ws] : inbox[ws][i].type # "EVENT" <=> inbox[ws][i].type \in AnswerTypes
  BY <1>2, <1>3
<1>5. \A place : place \in Answers(n) <=> \/ \E i \in G : place = <<"inbox", i>>
                                          \/ \E i \in D : place = <<"queue", i>>
  BY <1>4 DEF Answers, Places, MessageAt, Given, Due, ws
<1>6. G = {} /\ D = {} => Answers(n) = {}
  BY <1>5
<1>7. (\E i : G = {i}) /\ D = {} => \E place : Answers(n) = {place}
  <2> SUFFICES ASSUME NEW i, G = {i}, D = {} PROVE Answers(n) = {<<"inbox", i>>}
    OBVIOUS
  <2> HIDE DEF G, D
  <2> QED BY <1>5
<1>8. G = {} /\ (\E i : D = {i}) => \E place : Answers(n) = {place}
  <2> SUFFICES ASSUME NEW i, D = {i}, G = {} PROVE Answers(n) = {<<"queue", i>>}
    OBVIOUS
  <2> HIDE DEF G, D
  <2> QED BY <1>5
<1>9. Cardinality({}) = 0 /\ \A x : Cardinality({x}) = 1
  BY FS_EmptySet, FS_Singleton
<1>10. NothingSaid(queue, inbox[ws], ws, n, AnswerTypes) => Cardinality(Answers(n)) = 0
  BY <1>6, <1>9 DEF NothingSaid
<1>11. SaidOnce(queue, inbox[ws], ws, n, AnswerTypes) => Cardinality(Answers(n)) = 1
  BY <1>7, <1>8, <1>9 DEF SaidOnce, IsSingle
<1> QED BY <1>10, <1>11 DEF ws

\* For any clients, messages, limits and handlers: a message of a client that stays
\* is answered once, or is still being handled, or gets no answer.
THEOREM EachIsAnsweredOnce == RelaySpec => []AnsweredOnce
<1>1. RelayInv => AnsweredOnce
  <2> SUFFICES ASSUME RelayInv, NEW n \in DOMAIN sent, sockets[sent[n].ws] = "OPEN"
               PROVE  Cardinality(Answers(n)) + Cardinality({call \in calls : call.n = n})
                        + (IF n \in quiet THEN 1 ELSE 0) = 1
    BY DEF AnsweredOnce
  <2> DEFINE ws == sent[n].ws
             mine == CallsOf(calls, n)
  <2>1. {call \in calls : call.n = n} = mine
    BY DEF CallsOf
  <2>2. Accounted(queue, inbox[ws], ws, n, calls, quiet) /\ RelayShape
    BY DEF RelayInv, AllAccounted
  <2>3. /\ NothingSaid(queue, inbox[ws], ws, n, AnswerTypes) => Cardinality(Answers(n)) = 0
        /\ SaidOnce(queue, inbox[ws], ws, n, AnswerTypes) => Cardinality(Answers(n)) = 1
    BY <2>2, AnswersCounted
  <2>4. (mine = {} => Cardinality(mine) = 0) /\ (IsSingle(mine) => Cardinality(mine) = 1)
    BY FS_EmptySet, FS_Singleton DEF IsSingle
  <2> HIDE DEF ws, mine
  <2>5. \/ SaidOnce(queue, inbox[ws], ws, n, AnswerTypes) /\ mine = {} /\ n \notin quiet
        \/ NothingSaid(queue, inbox[ws], ws, n, AnswerTypes) /\ IsSingle(mine) /\ n \notin quiet
        \/ NothingSaid(queue, inbox[ws], ws, n, AnswerTypes) /\ mine = {} /\ n \in quiet
    BY <2>2 DEF Accounted, mine
  <2>6. \/ Cardinality(Answers(n)) = 1 /\ Cardinality(mine) = 0 /\ n \notin quiet
        \/ Cardinality(Answers(n)) = 0 /\ Cardinality(mine) = 1 /\ n \notin quiet
        \/ Cardinality(Answers(n)) = 0 /\ Cardinality(mine) = 0 /\ n \in quiet
    BY <2>3, <2>4, <2>5
  <2>7. Cardinality(Answers(n)) + Cardinality(mine) + (IF n \in quiet THEN 1 ELSE 0) = 1
    BY <2>6
  <2> QED BY <2>1, <2>7
<1> QED BY <1>1, RelayInvHolds, PTL

\* What a step adds to the queue is for sockets that are subscribed, if it is broadcast.
LEMMA StepsSpeak ==
  ASSUME RelayInv, [RelayNext]_relayVars
  PROVE  Deliver \/ queue' = queue \/ \E t, k : queue' = queue \o t /\ IsSpeech(t, k)
<1>1. StoreInv /\ RelayShape /\ SubscriptionsAreConnected
  BY DEF RelayInv
<1>2. ASSUME NEW ws \in Sockets, NEW raw \in RawMessages[ws], Receive(ws, raw)
      PROVE  queue' = queue \/ \E t, k : queue' = queue \o t /\ IsSpeech(t, k)
  BY <1>1, <1>2, ArrivalIsHandled DEF Handled
<1>3. ASSUME NEW ws \in Sockets, CloseSocket(ws) \/ FinishClose(ws)
      PROVE  queue' = queue
  BY <1>3 DEF CloseSocket, FinishClose
<1>4. ASSUME NEW call \in calls, Settle(call)
      PROVE  \E t, k : queue' = queue \o t /\ IsSpeech(t, k)
  BY <1>1, <1>4, CallIsSettled DEF Settled
<1>5. CASE Test
  BY <1>1, <1>5, TestIsUndisturbing DEF Undisturbed
<1>6. CASE UNCHANGED relayVars
  BY <1>6 DEF relayVars
<1> QED BY <1>2, <1>3, <1>4, <1>5, <1>6 DEF RelayNext

\* Asked, told from the lists.
LEMMA AskedAsLists ==
  ASSUME NEW ws, NEW subId
  PROVE  Asked(ws, subId) = AskedIn(sent, resetAt, queue, inbox[ws], ws, subId)
<1>1. ASSUME NEW n, sent[n].ws = ws
      PROVE  (\A place \in Answers(n) : MessageAt(ws, place).type # "NOTICE")
               <=> NothingSaid(queue, inbox[ws], ws, n, {"NOTICE"})
  <2>1. \A place : place \in Answers(n) <=>
          \/ \E i \in DOMAIN inbox[ws] :
               place = <<"inbox", i>> /\ inbox[ws][i].n = n /\ inbox[ws][i].type # "EVENT"
          \/ \E i \in DOMAIN queue :
               /\ place = <<"queue", i>> /\ queue[i].ws = ws
               /\ queue[i].message.n = n /\ queue[i].message.type # "EVENT"
    BY <1>1 DEF Answers, Places, MessageAt
  <2>2. (\A i : MessageAt(ws, <<"inbox", i>>) = inbox[ws][i])
        /\ \A i : MessageAt(ws, <<"queue", i>>) = queue[i].message
    BY DEF MessageAt
  <2>3. ASSUME \A place \in Answers(n) : MessageAt(ws, place).type # "NOTICE"
        PROVE  NothingSaid(queue, inbox[ws], ws, n, {"NOTICE"})
    <3>1. ASSUME NEW i \in DOMAIN inbox[ws], inbox[ws][i].n = n
          PROVE  inbox[ws][i].type # "NOTICE"
      BY <2>1, <2>2, <2>3, <3>1
    <3>2. ASSUME NEW i \in DOMAIN queue, queue[i].ws = ws, queue[i].message.n = n
          PROVE  queue[i].message.type # "NOTICE"
      BY <2>1, <2>2, <2>3, <3>2
    <3> QED BY <3>1, <3>2 DEF NothingSaid, Given, Due
  <2>4. ASSUME NothingSaid(queue, inbox[ws], ws, n, {"NOTICE"}), NEW place \in Answers(n)
        PROVE  MessageAt(ws, place).type # "NOTICE"
    <3>1. /\ \A i \in DOMAIN inbox[ws] : inbox[ws][i].n = n => inbox[ws][i].type # "NOTICE"
          /\ \A i \in DOMAIN queue : queue[i].ws = ws /\ queue[i].message.n = n =>
               queue[i].message.type # "NOTICE"
      BY <2>4 DEF NothingSaid, Given, Due
    <3> QED BY <2>1, <2>2, <3>1
  <2> QED BY <2>3, <2>4
<1> QED BY <1>1 DEF Asked, AskedIn, AsksFor

\* For any clients, messages, limits and handlers: an event is broadcast to a client
\* only under a subscription that its latest REQ of that id asked for.
THEOREM BroadcastsAreAskedFor == RelaySpec => BroadcastsAreWanted
<1> DEFINE Wanted == \A i \in (Len(queue) + 1)..Len(queue') :
       LET ws == queue'[i].ws  message == queue'[i].message
           last == Max(Asked(ws, message.subId))
       IN message.type = "EVENT" /\ message.n = 0 /\ sockets[ws] = "OPEN" =>
            /\ Asked(ws, message.subId) # {}
            /\ Type(sent[last].raw) = "REQ"
            /\ MatchesOne(message.event, FiltersOf(sent[last].raw))
<1>1. RelayInv /\ [RelayNext]_relayVars => Wanted
  <2> SUFFICES ASSUME RelayInv, [RelayNext]_relayVars, NEW i \in (Len(queue) + 1)..Len(queue'),
                      queue'[i].message.type = "EVENT", queue'[i].message.n = 0,
                      sockets[queue'[i].ws] = "OPEN"
               PROVE  LET ws == queue'[i].ws  message == queue'[i].message
                          last == Max(Asked(ws, message.subId))
                      IN /\ Asked(ws, message.subId) # {}
                         /\ Type(sent[last].raw) = "REQ"
                         /\ MatchesOne(message.event, FiltersOf(sent[last].raw))
    OBVIOUS
  <2> DEFINE ws == queue'[i].ws
             message == queue'[i].message
  <2>1. RelayShape /\ AllWanted /\ IsList(queue)
    BY DEF RelayInv, RelayShape
  <2>2. Len(queue) \in Nat
    BY <2>1, ListProperties
  <2>3. PICK t, k : queue' = queue \o t /\ IsSpeech(t, k)
    <3>1. ~Deliver
      <4> SUFFICES ASSUME Deliver PROVE FALSE
        OBVIOUS
      <4>1. queue' = Tail(queue) /\ queue # <<>>
        BY DEF Deliver
      <4>2. Len(queue') = Len(queue) - 1
        BY <4>1, <2>1, ListTail
      <4> QED BY <4>2, <2>2
    <3>2. queue' # queue
      BY <2>2
    <3> QED BY <3>1, <3>2, StepsSpeak
  <2>4. i - Len(queue) \in DOMAIN t /\ queue'[i] = t[i - Len(queue)]
    <3>1. IsList(t)
      BY <2>3 DEF IsSpeech
    <3>2. /\ Len(queue \o t) = Len(queue) + Len(t)
          /\ \A j \in 1..Len(t) : (queue \o t)[Len(queue) + j] = t[j]
      BY <2>1, <3>1, ListConcat
    <3>3. Len(t) \in Nat /\ DOMAIN t = 1..Len(t)
      BY <3>1, ListProperties
    <3>4. i - Len(queue) \in 1..Len(t) /\ Len(queue) + (i - Len(queue)) = i
      BY <2>2, <2>3, <3>2, <3>3
    <3> QED BY <2>3, <3>2, <3>3, <3>4
  <2>5. PICK key \in DOMAIN subscriptions :
          key[1] = ws /\ key[2] = message.subId /\ MatchesOne(message.event, subscriptions[key])
    BY <2>3, <2>4 DEF IsSpeech
  <2> DEFINE asked == AskedIn(sent, resetAt, queue, inbox[ws], ws, message.subId)
  <2>6. AskedLast(asked, sent, subscriptions[key])
    BY <2>1, <2>5 DEF AllWanted
  <2>7. asked = Asked(ws, message.subId)
    BY AskedAsLists
  <2>8. \A n \in asked : n \in Nat
    BY <2>1, NumbersSent DEF AskedIn
  <2> HIDE DEF asked, ws, message
  <2>9. PICK last \in asked : /\ \A n \in asked : n <= last
                              /\ Type(sent[last].raw) = "REQ"
                              /\ FiltersOf(sent[last].raw) = subscriptions[key]
    BY <2>6 DEF AskedLast
  <2>10. Max(asked) = last
    <3>1. \A m \in asked : (\A n \in asked : m >= n) => m = last
      BY <2>8, <2>9
    <3>2. \A n \in asked : last >= n
      BY <2>8, <2>9
    <3> QED BY <3>1, <3>2, <2>9 DEF Max
  <2> QED BY <2>5, <2>7, <2>9, <2>10 DEF ws, message
<1> QED BY <1>1, RelayInvHolds, PTL DEF RelaySpec, BroadcastsAreWanted

\* For any clients, messages, limits and handlers: a message is recorded and handled
\* if it meets the limits in force, and else changes nothing that lasts.
THEOREM OnlyAcceptableArrive == RelaySpec => OnlyAcceptableIsHandled
<1> DEFINE Decided == \A ws \in Sockets : \A raw \in RawMessages[ws] :
       sent' = Append(sent, [ws |-> ws, raw |-> raw]) =>
         IF Acceptable(raw, info) THEN received' = Append(received, N)
         ELSE UNCHANGED <<events, deletedIds, subscriptions, received>>
<1>1. RelayInv /\ [RelayNext]_relayVars => Decided
  <2> SUFFICES ASSUME RelayInv, [RelayNext]_relayVars, NEW ws \in Sockets, NEW raw \in RawMessages[ws],
                      sent' = Append(sent, [ws |-> ws, raw |-> raw])
               PROVE  IF Acceptable(raw, info) THEN received' = Append(received, N)
                      ELSE UNCHANGED <<events, deletedIds, subscriptions, received>>
    OBVIOUS
  <2>1. StoreInv /\ RelayShape /\ SubscriptionsAreConnected
    BY DEF RelayInv
  <2>2. IsList(sent) /\ Len(sent) \in Nat
    BY <2>1, ListProperties DEF RelayShape
  <2>3. sent' # sent /\ sent'[N] = [ws |-> ws, raw |-> raw]
    <3>1. /\ Len(Append(sent, [ws |-> ws, raw |-> raw])) = Len(sent) + 1
          /\ Append(sent, [ws |-> ws, raw |-> raw])[Len(sent) + 1] = [ws |-> ws, raw |-> raw]
      BY <2>2, ListAppended
    <3> QED BY <3>1, <2>2 DEF N
  <2>4. Receive(ws, raw)
    <3>1. ASSUME NEW w \in Sockets, NEW r \in RawMessages[w], Receive(w, r)
          PROVE  Receive(ws, raw)
      <4>1. Arrives(w, r)
        BY <2>1, <3>1, ArrivalIsHandled
      <4>2. sent'[N] = [ws |-> w, raw |-> r]
        BY <2>1, <4>1, SentGrows
      <4>3. [ws |-> w, raw |-> r].ws = [ws |-> ws, raw |-> raw].ws
            /\ [ws |-> w, raw |-> r].raw = [ws |-> ws, raw |-> raw].raw
        BY ONLY <4>2, <2>3
      <4>4. w = ws /\ r = raw
        BY ONLY <4>3
      <4> QED BY <3>1, <4>4
    <3>2. ASSUME NEW w \in Sockets, CloseSocket(w) \/ FinishClose(w)
          PROVE  sent' = sent
      BY <3>2 DEF CloseSocket, FinishClose, TestCalls, history
    <3>3. ASSUME NEW call \in calls, Settle(call)
          PROVE  sent' = sent
      BY <2>1, <3>3, CallIsSettled
    <3>4. CASE Deliver
      BY <3>4, <2>3 DEF Deliver, history
    <3>5. Test => sent' = sent
      BY <2>1, TestIsUndisturbing DEF Undisturbed
    <3>6. CASE UNCHANGED relayVars
      BY <3>6, <2>3 DEF relayVars, history
    <3> QED BY <2>3, <3>1, <3>2, <3>3, <3>4, <3>5, <3>6 DEF RelayNext
  <2>5. ParseClientMessage(raw, info) = Accepted <=> Acceptable(raw, info)
    <3>1. IsLimitation(None)
      BY DEF IsLimitation, None
    <3>2. IsLimitation(info) /\ IsRawMessage(raw)
      BY <2>1, <3>1, RelayAssumption DEF RelayShape
    <3> QED BY <3>2, AcceptedIsAcceptable
  <2>6. \/ RefuseMessage(ws, raw)
        \/ Record(ws, raw)
    BY <2>4 DEF Receive, DropConnection, SimulateError, ReceiveEvent, ReceiveReq, ReceiveClose,
                ReceiveCount, ReceiveAuth, RefuseType
  <2>7. CASE RefuseMessage(ws, raw)
    <3>1. ParseClientMessage(raw, info) # Accepted
          /\ UNCHANGED <<events, deletedIds, subscriptions, received>>
      BY <2>7 DEF RefuseMessage, vars, storeVars
    <3> QED BY <2>5, <3>1
  <2>8. CASE Record(ws, raw)
    BY <2>5, <2>8 DEF Record
  <2> QED BY <2>6, <2>7, <2>8
<1> QED BY <1>1, RelayInvHolds, PTL DEF RelaySpec, OnlyAcceptableIsHandled

-----------------------------------------------------------------------------
(***************************************************************************)
(* No event is missed between a REQ and the broadcasts after it.           *)
(***************************************************************************)

\* A message that brings event e to a subscription.
Gives(message, subId, e) ==
  message.type = "EVENT" /\ message.subId = subId /\ message.event = e

\* The client of ws has been given e under a subscription, or is about to be.
HasGot(q, box, ws, subId, e) ==
  \/ \E i \in DOMAIN box : Gives(box[i], subId, e)
  \/ \E i \in DOMAIN q : q[i].ws = ws /\ Gives(q[i].message, subId, e)

\* What has been given stays given while more is queued, and what is queued is given.
LEMMA GotStays ==
  ASSUME NEW q, IsList(q), NEW t, IsList(t), NEW box, NEW ws, NEW subId, NEW e
  PROVE  /\ HasGot(q, box, ws, subId, e) => HasGot(q \o t, box, ws, subId, e)
         /\ \A i \in DOMAIN t : t[i].ws = ws /\ Gives(t[i].message, subId, e) =>
              HasGot(q \o t, box, ws, subId, e)
<1> DEFINE u == q \o t
           Hit(x) == x.ws = ws /\ Gives(x.message, subId, e)
<1>1. /\ IsList(u) /\ Len(u) = Len(q) + Len(t)
      /\ \A i \in 1..Len(q) : u[i] = q[i]
      /\ \A i \in 1..Len(t) : u[Len(q) + i] = t[i]
  BY ListConcat
<1>2. /\ Len(q) \in Nat /\ DOMAIN q = 1..Len(q)
      /\ Len(t) \in Nat /\ DOMAIN t = 1..Len(t)
      /\ DOMAIN u = 1..Len(u)
  BY <1>1, ListProperties
<1> HIDE DEF u, Hit
<1>3. \A i \in 1..Len(q) : i \in DOMAIN u
  BY <1>1, <1>2
<1>4. \A i \in 1..Len(t) : Len(q) + i \in DOMAIN u
  BY <1>1, <1>2
<1>5. ASSUME NEW i \in DOMAIN q, Hit(q[i]) PROVE \E j \in DOMAIN u : Hit(u[j])
  BY <1>1, <1>2, <1>3, <1>5
<1>6. ASSUME NEW i \in DOMAIN t, Hit(t[i]) PROVE \E j \in DOMAIN u : Hit(u[j])
  BY <1>1, <1>2, <1>4, <1>6
<1>7. (\E j \in DOMAIN u : Hit(u[j])) => HasGot(u, box, ws, subId, e)
  BY DEF HasGot, Hit
<1>8. HasGot(q, box, ws, subId, e) =>
        (\E i \in DOMAIN box : Gives(box[i], subId, e)) \/ \E i \in DOMAIN q : Hit(q[i])
  BY DEF HasGot, Hit
<1>9. (\E i \in DOMAIN box : Gives(box[i], subId, e)) => HasGot(u, box, ws, subId, e)
  BY DEF HasGot
<1> QED BY <1>5, <1>6, <1>7, <1>8, <1>9 DEF u, Hit

\* A delivery to a client that is OPEN loses none of it.
LEMMA GotDelivered ==
  ASSUME NEW q, IsList(q), q # <<>>, NEW box, IsList(box), NEW ws, NEW subId, NEW e,
         HasGot(q, box, ws, subId, e)
  PROVE  HasGot(Tail(q), AfterDelivery(q, box, ws), ws, subId, e)
<1> DEFINE after == AfterDelivery(q, box, ws)
           r == Tail(q)
           b == Append(box, Head(q).message)
<1>1. /\ IsList(r) /\ Len(q) \in Nat \ {0} /\ Len(r) = Len(q) - 1
      /\ Head(q) = q[1] /\ \A i \in 1..Len(r) : r[i] = q[i + 1]
  BY ListTail
<1>2. DOMAIN q = 1..Len(q) /\ DOMAIN r = 1..Len(r) /\ DOMAIN box = 1..Len(box) /\ Len(box) \in Nat
  BY <1>1, ListProperties
<1>3. /\ IsList(b) /\ Len(b) = Len(box) + 1
      /\ \A i \in 1..Len(box) : b[i] = box[i]
      /\ b[Len(box) + 1] = Head(q).message
  BY ListAppended
<1>4. DOMAIN b = 1..(Len(box) + 1)
  BY <1>3, ListProperties
<1>5. after = IF Head(q).ws = ws THEN b ELSE box
  BY DEF AfterDelivery
<1> HIDE DEF r, b, after
<1>6. ASSUME NEW i \in DOMAIN box, Gives(box[i], subId, e)
      PROVE  \E j \in DOMAIN after : Gives(after[j], subId, e)
  <2>1. i \in DOMAIN b /\ b[i] = box[i]
    BY <1>2, <1>3, <1>4
  <2> QED BY <2>1, <1>5, <1>6
<1>7. ASSUME NEW i \in DOMAIN q, q[i].ws = ws, Gives(q[i].message, subId, e)
      PROVE  HasGot(r, after, ws, subId, e)
  <2>1. CASE i = 1
    <3>1. Len(box) + 1 \in DOMAIN b /\ b[Len(box) + 1] = q[1].message
      BY <1>1, <1>2, <1>3, <1>4
    <3>2. after = b
      BY <2>1, <1>1, <1>5, <1>7
    <3> QED BY <3>1, <3>2, <2>1, <1>7 DEF HasGot
  <2>2. CASE i # 1
    <3>1. i - 1 \in 1..Len(r) /\ (i - 1) + 1 = i
      BY <2>2, <1>1, <1>2
    <3>2. i - 1 \in DOMAIN r /\ r[i - 1] = q[i]
      BY <3>1, <1>1, <1>2
    <3> QED BY <3>2, <1>7 DEF HasGot
  <2> QED BY <2>1, <2>2
<1>8. (\E j \in DOMAIN after : Gives(after[j], subId, e)) => HasGot(r, after, ws, subId, e)
  BY DEF HasGot
<1> QED BY <1>6, <1>7, <1>8 DEF HasGot, r, after

\* No step takes back what a client that stays has been given.
LEMMA GotIsKept ==
  ASSUME RelayInv, [RelayNext]_relayVars, NEW ws \in Sockets, sockets[ws] = "OPEN",
         NEW subId, NEW e, HasGot(queue, inbox[ws], ws, subId, e)
  PROVE  HasGot(queue', inbox'[ws], ws, subId, e)
<1>1. /\ StoreInv /\ RelayShape /\ SubscriptionsAreConnected
      /\ IsList(queue) /\ DOMAIN inbox = Sockets /\ IsList(inbox[ws])
  BY DEF RelayInv, RelayShape
<1>2. CASE Deliver
  <2> DEFINE task == Head(queue)
             box == inbox[ws]
             after == inbox'[ws]
  <2>1. /\ queue # <<>> /\ queue' = Tail(queue)
        /\ inbox' = IF sockets[task.ws] = "OPEN"
                      THEN [inbox EXCEPT ![task.ws] = Append(@, task.message)] ELSE inbox
    BY <1>2 DEF Deliver
  <2>2. after = AfterDelivery(queue, box, ws)
    <3>1. CASE task.ws = ws
      BY <3>1, <2>1, <1>1 DEF AfterDelivery
    <3>2. CASE task.ws # ws
      <4>1. after = box
        BY <3>2, <2>1, <1>1
      <4> QED BY <4>1, <3>2 DEF AfterDelivery
    <3> QED BY <3>1, <3>2
  <2> HIDE DEF after
  <2>3. IsList(box) /\ HasGot(queue, box, ws, subId, e)
    BY <1>1
  <2> HIDE DEF box
  <2>4. HasGot(Tail(queue), AfterDelivery(queue, box, ws), ws, subId, e)
    BY <2>1, <2>3, <1>1, GotDelivered
  <2> QED BY <2>1, <2>2, <2>4 DEF after
<1>3. ASSUME inbox' = inbox, queue' = queue \/ \E t, k : queue' = queue \o t /\ IsSpeech(t, k)
      PROVE  HasGot(queue', inbox'[ws], ws, subId, e)
  <2>1. CASE queue' = queue
    BY <2>1, <1>3
  <2>2. CASE \E t, k : queue' = queue \o t /\ IsSpeech(t, k)
    <3>1. PICK t, k : queue' = queue \o t /\ IsSpeech(t, k)
      BY <2>2
    <3>2. IsList(t)
      BY <3>1 DEF IsSpeech
    <3>3. HasGot(queue \o t, inbox[ws], ws, subId, e)
      BY <3>2, <1>1, GotStays
    <3> QED BY <3>1, <3>3, <1>3
  <2> QED BY <2>1, <2>2, <1>3
<1>4. Deliver \/ inbox' = inbox
  <2>1. ASSUME NEW w \in Sockets, NEW raw \in RawMessages[w], Receive(w, raw) PROVE inbox' = inbox
    BY <2>1, <1>1, ArrivalIsHandled
  <2>2. ASSUME NEW w \in Sockets, CloseSocket(w) \/ FinishClose(w) PROVE inbox' = inbox
    BY <2>2 DEF CloseSocket, FinishClose, TestCalls
  <2>3. ASSUME NEW call \in calls, Settle(call) PROVE inbox' = inbox
    BY <2>3, <1>1, CallIsSettled
  <2>4. Test => inbox' = inbox
    BY <1>1, TestIsUndisturbing DEF Undisturbed
  <2>5. UNCHANGED relayVars => inbox' = inbox
    BY DEF relayVars
  <2> QED BY <2>1, <2>2, <2>3, <2>4, <2>5 DEF RelayNext
<1> QED BY <1>2, <1>3, <1>4, StepsSpeak

\* Every subscription has the filters of a message that was sent.
FromClients ==
  \A key \in DOMAIN subscriptions :
    \E n \in DOMAIN sent : subscriptions[key] = FiltersOf(sent[n].raw)

\* The subscriptions that are left are as they were, and so are their clients.
Persist ==
  \A key \in DOMAIN subscriptions' :
    /\ key \in DOMAIN subscriptions /\ subscriptions'[key] = subscriptions[key]
    /\ sockets'[key[1]] = "OPEN" => sockets[key[1]] = "OPEN"

\* They are, but for the one that a REQ asks for.
LEMMA SubscriptionsPersist ==
  ASSUME StoreInv, RelayShape, SubscriptionsAreConnected, [RelayNext]_relayVars
  PROVE  Persist \/ \E ws \in Sockets : \E raw \in RawMessages[ws] : ReceiveReq(ws, raw)
<1>1. UNCHANGED <<sockets, subscriptions>> => Persist
  BY DEF Persist
<1>2. ASSUME Thinned PROVE Persist
  BY <1>2 DEF Thinned, Persist, RelayShape
<1>3. ASSUME NEW ws \in Sockets, NEW raw \in RawMessages[ws], Receive(ws, raw)
      PROVE  Persist \/ ReceiveReq(ws, raw)
  <2>1. CASE DropConnection(ws, raw)
    <3>1. Leave({ws})
      BY <2>1 DEF DropConnection
    <3> QED BY <3>1, <1>2, LeavingThins
  <2>2. CASE ReceiveClose(ws, raw)
    <3>1. sockets' = sockets /\ subscriptions' = Without({<<ws, SubId(raw)>>})
      BY <2>2 DEF ReceiveClose
    <3> QED BY <3>1 DEF Without, Persist
  <2>3. CASE ReceiveEvent(ws, raw)
    BY <2>3, <1>1 DEF ReceiveEvent
  <2>4. CASE \/ RefuseMessage(ws, raw) \/ SimulateError(ws, raw) \/ ReceiveCount(ws, raw)
             \/ ReceiveAuth(ws, raw) \/ RefuseType(ws, raw)
    BY <2>4, <1>1 DEF RefuseMessage, SimulateError, ReceiveCount, ReceiveAuth, RefuseType
  <2> QED BY <1>3, <2>1, <2>2, <2>3, <2>4 DEF Receive
<1>4. ASSUME NEW t, Undisturbed(t) PROVE Persist
  <2>1. CASE Thinned
    BY <2>1, <1>2
  <2>2. CASE subscriptions' = None
    BY <2>2 DEF Persist, None
  <2> QED BY <2>1, <2>2, <1>4 DEF Undisturbed
<1>5. ASSUME NEW ws \in Sockets, CloseSocket(ws) \/ FinishClose(ws) PROVE Persist
  BY <1>4, <1>5, ClosingIsUndisturbing
<1>6. ASSUME NEW call \in calls, Settle(call) PROVE Persist
  BY <1>1, <1>6, CallIsSettled
<1>7. CASE Deliver
  BY <1>1, <1>7 DEF Deliver
<1>8. CASE Test
  BY <1>4, <1>8, TestIsUndisturbing
<1>9. CASE UNCHANGED relayVars
  BY <1>1, <1>9 DEF relayVars
<1> QED BY <1>3, <1>5, <1>6, <1>7, <1>8, <1>9 DEF RelayNext

\* What was sent stays sent.
LEMMA SentIsKept ==
  ASSUME StoreInv, RelayShape, SubscriptionsAreConnected, [RelayNext]_relayVars
  PROVE  \A n \in DOMAIN sent : n \in DOMAIN sent' /\ sent'[n] = sent[n]
<1>1. ASSUME NEW ws \in Sockets, NEW raw \in RawMessages[ws], Receive(ws, raw)
      PROVE  \A n \in DOMAIN sent : n \in DOMAIN sent' /\ sent'[n] = sent[n]
  BY <1>1, ArrivalIsHandled, SentGrows
<1>2. ASSUME NEW ws \in Sockets, CloseSocket(ws) \/ FinishClose(ws) PROVE sent' = sent
  BY <1>2, ClosingIsUndisturbing DEF Undisturbed
<1>3. ASSUME NEW call \in calls, Settle(call) PROVE sent' = sent
  BY <1>3, CallIsSettled
<1>4. Deliver => sent' = sent
  BY DEF Deliver, history
<1>5. Test => sent' = sent
  BY TestIsUndisturbing DEF Undisturbed
<1>6. UNCHANGED relayVars => sent' = sent
  BY DEF relayVars, history
<1> QED BY <1>1, <1>2, <1>3, <1>4, <1>5, <1>6 DEF RelayNext

\* So the subscriptions stay those of messages.
LEMMA FromClientsIsKept ==
  ASSUME StoreInv, RelayShape, SubscriptionsAreConnected, FromClients, [RelayNext]_relayVars
  PROVE  FromClients'
<1> SUFFICES ASSUME NEW key \in DOMAIN subscriptions'
             PROVE  \E n \in DOMAIN sent' : subscriptions'[key] = FiltersOf(sent'[n].raw)
  BY DEF FromClients, FiltersOf
<1>1. \A n \in DOMAIN sent : n \in DOMAIN sent' /\ sent'[n] = sent[n]
  BY SentIsKept
<1>2. ASSUME key \in DOMAIN subscriptions, subscriptions'[key] = subscriptions[key]
      PROVE  \E n \in DOMAIN sent' : subscriptions'[key] = FiltersOf(sent'[n].raw)
  BY <1>1, <1>2 DEF FromClients
<1>3. ASSUME NEW ws \in Sockets, NEW raw \in RawMessages[ws], ReceiveReq(ws, raw)
      PROVE  \E n \in DOMAIN sent' : subscriptions'[key] = FiltersOf(sent'[n].raw)
  <2>1. Subscribe(ws, SubId(raw), FiltersOf(raw)) /\ Arrives(ws, raw)
    BY <1>3 DEF ReceiveReq, Record
  <2>2. CASE key = <<ws, SubId(raw)>>
    <3>1. subscriptions'[key] = FiltersOf(raw)
      BY <2>1, <2>2 DEF Subscribe
    <3>2. N \in DOMAIN sent' /\ sent'[N].raw = raw
      <4>1. sent'[N] = [ws |-> ws, raw |-> raw] /\ N \in DOMAIN sent'
        BY <2>1, SentGrows
      <4> QED BY <4>1
    <3> QED BY <3>1, <3>2
  <2>3. CASE key # <<ws, SubId(raw)>>
    BY <2>1, <2>3, <1>2 DEF Subscribe
  <2> QED BY <2>2, <2>3
<1>4. CASE Persist
  BY <1>2, <1>4 DEF Persist
<1> QED BY <1>3, <1>4, SubscriptionsPersist

\* The lists SetToSeqs gives of a finite set have all of it.
LEMMA OrdersAreComplete ==
  ASSUME NEW S, IsFiniteSet(S), NEW order \in SetToSeqs(S), NEW x \in S
  PROVE  \E i \in DOMAIN order : order[i] = x
<1> DEFINE n == Cardinality(S)
           places == 1..n
<1>1. n \in Nat /\ order \in [places -> S]
      /\ \A i, j \in places : i # j => order[i] # order[j]
  BY FS_CardinalityType DEF SetToSeqs
<1>2. Cardinality(places) = n
  <2>1. 1 \in Int /\ n \in Int
    BY <1>1
  <2> HIDE DEF n
  <2> QED BY <2>1, <1>1, FS_Interval
<1> HIDE DEF places, n
<1>3. order \in Injection(places, S)
  BY <1>1 DEF Injection, IsInjective
<1>4. order \in Surjection(places, S)
  BY <1>2, <1>3, FS_Injection DEF n
<1> QED BY <1>1, <1>4 DEF Surjection

\* A broadcast reaches every subscription that matches.
LEMMA BroadcastReaches ==
  ASSUME IsFiniteSet(DOMAIN subscriptions), NEW e, NEW tasks \in Broadcasts(e),
         NEW key \in MatchingSubscriptions(e)
  PROVE  \E i \in DOMAIN tasks : tasks[i].ws = key[1] /\ Gives(tasks[i].message, key[2], e)
<1> DEFINE S == MatchingSubscriptions(e)
           At(order, i) == [ws |-> order[i][1], message |-> EventMessage(order[i][2], e, 0)]
<1>1. PICK order \in SetToSeqs(S) : tasks = [i \in DOMAIN order |-> At(order, i)]
  BY DEF Broadcasts
<1>2. IsFiniteSet(S)
  <2>1. S \subseteq DOMAIN subscriptions
    BY DEF MatchingSubscriptions
  <2> QED BY <2>1, FS_Subset
<1> HIDE DEF S
<1>3. PICK i \in DOMAIN order : order[i] = key
  BY <1>2, OrdersAreComplete DEF S
<1>4. i \in DOMAIN tasks /\ tasks[i].ws = key[1] /\ tasks[i].message = EventMessage(key[2], e, 0)
  BY <1>1, <1>3
<1> QED BY <1>4 DEF Gives, EventMessage

\* The store keeps what it is given, or changes nothing.
LEMMA KeepAdds ==
  ASSUME StoreInv, NEW o, Keep(o)
  PROVE  /\ Stored(events') \subseteq Stored(events) \cup {o}
         /\ nextOrder' = nextOrder => events' = events
<1>1. nextOrder \in Nat /\ nextOrder + 1 # nextOrder
  BY StoreFacts
<1>2. \A es : Stored(Appended(es, o)) \subseteq Stored(es) \cup {o}
  BY DEF Stored, Appended
<1>3. \A P \in SUBSET DOMAIN events : Stored(Only(events, P)) \subseteq Stored(events)
  BY DEF Stored, Only
<1>4. \/ UNCHANGED storeVars
      \/ nextOrder' = nextOrder + 1 /\ events' = Appended(events, o)
      \/ nextOrder' = nextOrder + 1 /\ \E P \in SUBSET DOMAIN events : events' = Appended(Only(events, P), o)
  BY DEF Keep, DeleteAndAppend, AppendEvent, Replace
<1> QED BY <1>1, <1>2, <1>3, <1>4 DEF storeVars

\* Every subscription that matches e is given it.
Reaches(e) ==
  \A key \in MatchingSubscriptions(e) : \A box : HasGot(queue', box, key[1], key[2], e)

\* What a step adds to the store is announced, unless the test put it there.
Announced ==
  \A o \in Stored(events') :
    (saved.nextOrder = 0 /\ o \in Stored(events)) \/ o = TestObject(o.event) \/ Reaches(o.event)

\* Publishing announces, if no filter breaks the broadcast.
LEMMA PublishingAnnounces ==
  ASSUME StoreInv, RelayShape, NEW ws, NEW n, NEW e \in Events, PublishAndAnswer(ws, n, e),
         ~BroadcastThrows(e), saved'.nextOrder = 0
  PROVE  Announced
<1>1. IsList(queue) /\ IsFiniteSet(DOMAIN subscriptions)
  BY DEF RelayShape
<1>2. Publish(e) /\ saved' = saved
  BY DEF PublishAndAnswer, Publish
<1>3. nextOrder \in Nat
  BY StoreFacts
<1> DEFINE o == NewObject(e, nextOrder)
<1>4. o.event = e
  BY <1>3, NewObjects
<1>5. events' = events \/ (Stored(events') \subseteq Stored(events) \cup {o} /\ ~Deleted(e)
                             /\ nextOrder' # nextOrder)
  <2>1. CASE Deleted(e)
    BY <2>1, <1>2 DEF Publish, storeVars
  <2>2. CASE ~Deleted(e)
    <3>1. Keep(o)
      BY <2>2, <1>2 DEF Publish
    <3> HIDE DEF o
    <3> QED BY <3>1, <2>2, KeepAdds
  <2> QED BY <2>1, <2>2
<1> HIDE DEF o
<1>6. CASE events' = events
  BY <1>2, <1>6 DEF Announced
<1>7. CASE Stored(events') \subseteq Stored(events) \cup {o} /\ ~Deleted(e) /\ nextOrder' # nextOrder
  <2>1. PICK tasks \in Broadcasts(e) : queue' = queue \o tasks \o Tasks(ws, <<Ok(e, TRUE, n)>>)
    BY <1>7 DEF PublishAndAnswer
  <2> DEFINE m == Ok(e, TRUE, n)
             last == Tasks(ws, <<m>>)
  <2>2. IsList(tasks)
    <3>1. IsSpeech(tasks, 0)
      BY BroadcastIsSaid DEF RelayShape
    <3> QED BY <3>1 DEF IsSpeech
  <2>3. IsList(last)
    <3> HIDE DEF m
    <3>1. DOMAIN <<m>> = 1..1
      BY ShortLists
    <3>2. last = [i \in 1..1 |-> last[i]]
      BY <3>1 DEF Tasks
    <3> HIDE DEF last
    <3> QED BY <3>2, ListMade
  <2> HIDE DEF last
  <2>4. Reaches(e)
    <3> SUFFICES ASSUME NEW key \in MatchingSubscriptions(e), NEW box
                 PROVE  HasGot(queue', box, key[1], key[2], e)
      BY DEF Reaches
    <3>1. \E i \in DOMAIN tasks : tasks[i].ws = key[1] /\ Gives(tasks[i].message, key[2], e)
      BY <1>1, BroadcastReaches
    <3>2. HasGot(queue \o tasks, box, key[1], key[2], e)
      BY <3>1, <1>1, <2>2, GotStays
    <3>3. IsList(queue \o tasks)
      BY <1>1, <2>2, ListConcat
    <3> DEFINE q == queue \o tasks
    <3>4. queue' = q \o last
      BY <2>1 DEF last
    <3> HIDE DEF q
    <3>5. HasGot(q \o last, box, key[1], key[2], e)
      BY <3>2, <3>3, <2>3, GotStays DEF q
    <3> QED BY <3>4, <3>5
  <2> QED BY <2>4, <1>2, <1>4, <1>7 DEF Announced
<1> QED BY <1>5, <1>6, <1>7

\* Every filter that was sent compiles, so that none breaks a broadcast.
AllCompile == \A n \in DOMAIN sent : Compile(FiltersOf(sent[n].raw))

LEMMA NoneBreaks ==
  ASSUME FromClients, AllCompile, NEW e
  PROVE  ~BroadcastThrows(e)
<1>1. ASSUME NEW key \in DOMAIN subscriptions PROVE ~Breaks(e, subscriptions[key])
  <2>1. Compile(subscriptions[key])
    BY DEF FromClients, AllCompile
  <2> QED BY <2>1 DEF Breaks, Compile
<1> QED BY <1>1 DEF BroadcastThrows

\* Handling an EVENT announces it.
LEMMA HandlingAnnounces ==
  ASSUME StoreInv, RelayShape, FromClients, AllCompile, saved'.nextOrder = 0,
         NEW ws, NEW n, NEW e \in Events, NEW others, HandleEvent(ws, n, e, others)
  PROVE  Announced
<1>1. CASE PublishAndAnswer(ws, n, e)
  BY <1>1, NoneBreaks, PublishingAnnounces
<1>2. CASE UNCHANGED vars
  BY <1>2 DEF Announced, vars, storeVars
<1> QED BY <1>1, <1>2 DEF HandleEvent

\* Every step announces what it adds, if nothing comes from a snapshot.
LEMMA StepsAnnounce ==
  ASSUME StoreInv, RelayShape, FromClients, AllCompile, [RelayNext]_relayVars,
         saved'.nextOrder = 0
  PROVE  Announced
<1>1. UNCHANGED vars => Announced
  BY DEF Announced, vars, storeVars
<1>2. (\A p \in DOMAIN events' : FALSE) => Announced
  BY DEF Announced, Stored
<1>3. ASSUME NEW ws \in Sockets, NEW raw \in RawMessages[ws], Receive(ws, raw)
      PROVE  Announced
  <2>1. CASE ReceiveEvent(ws, raw)
    <3>1. UNCHANGED vars \/ HandleEvent(ws, N, EventOf(raw), calls)
      BY <2>1 DEF ReceiveEvent
    <3>2. EventOf(raw) \in Events
      BY <2>1, AcceptedItems DEF ReceiveEvent, Record
    <3> QED BY <3>1, <3>2, <1>1, HandlingAnnounces
  <2>2. ReceiveEvent(ws, raw) \/ UNCHANGED vars
    BY <1>3 DEF Receive, RefuseMessage, DropConnection, SimulateError, ReceiveReq, ReceiveClose,
                ReceiveCount, ReceiveAuth, RefuseType
  <2> QED BY <2>1, <2>2, <1>1
<1>4. ASSUME NEW ws \in Sockets, CloseSocket(ws) \/ FinishClose(ws) PROVE Announced
  BY <1>1, <1>4 DEF CloseSocket, FinishClose
<1>5. ASSUME NEW call \in calls, Settle(call) PROVE Announced
  <2>1. CASE SignatureValid(call)
    <3>1. HandleEvent(WsOf(call), call.n, EventOf(RawOf(call)), calls \ {call})
      BY <2>1 DEF SignatureValid
    <3>2. EventOf(RawOf(call)) \in Events
      BY <2>1 DEF SignatureValid, RelayShape
    <3> QED BY <3>1, <3>2, HandlingAnnounces
  <2>2. SignatureValid(call) \/ UNCHANGED vars
    BY <1>5 DEF Settle, SignatureInvalid, VerifierRejects, EventHandled, ReqHandled, CountHandled,
                AuthHandled, HandlerThrows
  <2> QED BY <2>1, <2>2, <1>1
<1>6. Deliver => Announced
  BY <1>1 DEF Deliver
<1>7. ASSUME NEW e \in Events, RelayStore(e) PROVE Announced
  <2> DEFINE o == TestObject(e)
  <2>1. Keep(o) /\ saved' = saved
    BY <1>7 DEF RelayStore, Store
  <2>2. o = TestObject(o.event)
    BY DEF TestObject
  <2> HIDE DEF o
  <2>3. Stored(events') \subseteq Stored(events) \cup {o}
    BY <2>1, KeepAdds
  <2> QED BY <2>1, <2>2, <2>3 DEF Announced
<1>8. RelaySnapshot => Announced
  <2> SUFFICES ASSUME RelaySnapshot PROVE Announced
    OBVIOUS
  <2>1. nextOrder = 0 /\ events' = events
    BY DEF RelaySnapshot, Snapshot, storeVars
  <2>2. \A p \in DOMAIN events : p \in 0..(0 - 1)
    BY <2>1, StoreFacts
  <2> QED BY <2>1, <2>2, <1>2
<1>9. RelayRestore => Announced
  <2> SUFFICES ASSUME RelayRestore PROVE Announced
    OBVIOUS
  <2>1. DOMAIN events' = DOMAIN saved.store /\ saved.nextOrder = 0
    BY DEF RelayRestore, RestoreSnapshot, Rebuild
  <2>2. \A p \in DOMAIN saved.store : p \in 0..(0 - 1)
    BY <2>1 DEF StoreInv, SavedInv
  <2> QED BY <2>1, <2>2, <1>2
<1>10. RelayReset => Announced
  <2>1. RelayReset => DOMAIN events' = {}
    BY DEF RelayReset, Reset, NoEvents
  <2> QED BY <2>1, <1>2
<1>11. Test => Announced
  <2>1. ASSUME Test
        PROVE  \/ UNCHANGED vars \/ \E e \in Events : RelayStore(e)
               \/ RelaySnapshot \/ RelayRestore \/ RelayReset
    BY <2>1 DEF Test, SetHandler, SetInfo, Broadcast, SendNotice, Disconnect
  <2> QED BY <2>1, <1>1, <1>7, <1>8, <1>9, <1>10
<1> QED BY <1>1, <1>3, <1>4, <1>5, <1>6, <1>11 DEF RelayNext, relayVars

\* A list of filters without limit whose searches are for whole words.
Plain(filters) ==
  \A i \in DOMAIN filters : LET f == filters[i].filter IN f.limit = {} /\ WholeWords(f)

\* Of the objects of es, a subscription has got what it asks for.
GivenAll(es, filters, q, box, ws, subId) ==
  Plain(filters) =>
    \A o \in Stored(es) :
      MatchesOne(o.event, filters) /\ o # TestObject(o.event) => HasGot(q, box, ws, subId, o.event)

\* SoundFiltersMissNothing, told subscription by subscription.
NoneMissed ==
  AllCompile /\ "req" \notin handlers /\ saved.nextOrder = 0 =>
    \A key \in DOMAIN subscriptions :
      sockets[key[1]] = "OPEN" =>
        GivenAll(events, subscriptions[key], queue, inbox[key[1]], key[1], key[2])

\* The invariant of the next state, told from its variables.
LEMMA NextNoneMissed ==
  NoneMissed' <=>
    (AllCompile' /\ "req" \notin handlers' /\ saved'.nextOrder = 0 =>
       \A key \in DOMAIN subscriptions' :
         sockets'[key[1]] = "OPEN" =>
           GivenAll(events', subscriptions'[key], queue', inbox'[key[1]], key[1], key[2]))
BY DEF NoneMissed, GivenAll, Plain, WholeWords, MatchesOne, Matches, TagNames, TestObject, Stored,
       HasGot, Gives

\* The stored events that a REQ answers with are given to its client.
LEMMA EventsReach ==
  ASSUME IsList(queue), NEW ws, NEW subId, NEW es, IsList(es), NEW k, SendEvents(ws, subId, es, k),
         NEW i \in DOMAIN es, NEW box
  PROVE  HasGot(queue', box, ws, subId, es[i])
<1> DEFINE found == [j \in DOMAIN es |-> EventMessage(subId, es[j], k)]
           one == <<Eose(subId, k)>>
           all == found \o one
           t == Tasks(ws, all)
           m == Len(es)
<1>1. queue' = queue \o t
  BY DEF SendEvents
<1>2. m \in Nat /\ DOMAIN es = 1..m
  BY ListProperties
<1>3. IsList(found) /\ Len(found) = m /\ Gives(found[i], subId, es[i])
  <2>1. found = [j \in 1..m |-> found[j]]
    BY <1>2
  <2>2. Gives(found[i], subId, es[i])
    BY DEF Gives, EventMessage
  <2> HIDE DEF found, m
  <2>3. IsList(found) /\ Len(found) = m
    BY <2>1, <1>2, ListMade
  <2> QED BY <2>2, <2>3
<1>4. IsList(one) /\ Len(one) = 1
  BY ShortLists
<1> HIDE DEF found, one, m
<1>5. IsList(all) /\ Len(all) = m + 1 /\ \A j \in 1..m : all[j] = found[j]
  <2>1. IsList(found) /\ IsList(one)
    BY <1>3, <1>4
  <2>2. /\ IsList(found \o one) /\ Len(found \o one) = Len(found) + Len(one)
        /\ \A j \in 1..Len(found) : (found \o one)[j] = found[j]
    BY ONLY <2>1, ListConcat
  <2> QED BY <2>2, <1>3, <1>4
<1> HIDE DEF all
<1>6. DOMAIN all = 1..(m + 1) /\ m + 1 \in Nat /\ i \in 1..m /\ i \in 1..(m + 1)
  BY <1>2, <1>5, ListProperties
<1>7. t = [j \in 1..(m + 1) |-> [ws |-> ws, message |-> all[j]]]
  BY <1>6 DEF Tasks
<1>8. t[i].ws = ws /\ t[i].message = all[i]
  BY <1>6, <1>7
<1>9. IsList(t) /\ DOMAIN t = 1..(m + 1)
  <2>1. t = [j \in 1..(m + 1) |-> t[j]]
    BY <1>7
  <2> HIDE DEF t
  <2>2. IsList(t) /\ Len(t) = m + 1
    BY <2>1, <1>6, ListMade
  <2> QED BY <2>2, ListProperties
<1> HIDE DEF t
<1>10. i \in DOMAIN t /\ t[i].ws = ws /\ Gives(t[i].message, subId, es[i])
  BY <1>3, <1>5, <1>6, <1>8, <1>9
<1> DEFINE e == es[i]
<1> HIDE DEF e
<1>11. HasGot(queue \o t, box, ws, subId, e)
  BY <1>9, <1>10, GotStays DEF e
<1> QED BY <1>1, <1>11 DEF e

\* A REQ is answered with all that its filters ask for.
LEMMA ReqFindsAll ==
  ASSUME StoreInv, RelayShape, NEW ws \in Sockets, NEW raw \in RawMessages[ws],
         ReceiveReq(ws, raw), "req" \notin handlers, Compile(FiltersOf(raw))
  PROVE  GivenAll(events, FiltersOf(raw), queue', inbox[ws], ws, SubId(raw))
<1> DEFINE filters == FiltersOf(raw)
           fs == Compiled(filters)
           found == QueryMany(fs)
           es == [i \in DOMAIN found |-> found[i].event]
           cat == Concatenated(fs)
<1>1. /\ Type(raw) = "REQ" /\ ParseClientMessage(raw, info) = Accepted
      /\ SendEvents(ws, SubId(raw), es, N)
  BY DEF ReceiveReq, Record
<1>2. AreFilters(fs)
  BY <1>1, AcceptedItems
<1>3. DOMAIN fs = DOMAIN filters /\ \A i \in DOMAIN filters : fs[i] = filters[i].filter
  BY DEF Compiled
<1> HIDE DEF filters, fs
<1>4. /\ IsList(found) /\ ToSet(found) \subseteq ToSet(cat)
      /\ {Id(o) : o \in ToSet(found)} = {Id(o) : o \in ToSet(cat)}
      /\ ToSet(cat) = UNION {ToSet(Query(fs[k])) : k \in DOMAIN fs}
  BY <1>2, QueryManyIsRight, ConcatenatedIsRight
<1> HIDE DEF found, cat
<1>5. IsList(es) /\ DOMAIN es = DOMAIN found /\ \A i \in DOMAIN found : es[i] = found[i].event
  <2>1. DOMAIN found = 1..Len(found) /\ Len(found) \in Nat
    BY <1>4, ListProperties
  <2>2. es = [i \in 1..Len(found) |-> es[i]]
    BY <2>1
  <2>3. DOMAIN es = DOMAIN found /\ \A i \in DOMAIN found : es[i] = found[i].event
    OBVIOUS
  <2> HIDE DEF es
  <2> QED BY <2>1, <2>2, <2>3, ListMade
<1> HIDE DEF es
<1>6. \A x \in ToSet(cat) : x \in Stored(events)
  <2> SUFFICES ASSUME NEW k \in DOMAIN fs, NEW x \in ToSet(Query(fs[k])) PROVE x \in Stored(events)
    BY <1>4
  <2>1. IsFilter(fs[k])
    BY <1>2 DEF AreFilters
  <2> DEFINE f == fs[k]
  <2> HIDE DEF f
  <2>2. IsList(Query(f)) /\ \A i \in 1..Len(Query(f)) : Query(f)[i] \in Stored(events)
    BY <2>1, QueryFacts DEF f
  <2>3. DOMAIN Query(f) = 1..Len(Query(f))
    BY <2>2, ListProperties
  <2> QED BY <2>2, <2>3 DEF ToSet, f
<1> SUFFICES ASSUME Plain(filters), NEW o \in Stored(events), MatchesOne(o.event, filters)
             PROVE  HasGot(queue', inbox[ws], ws, SubId(raw), o.event)
  BY DEF GivenAll, filters
<1>7. PICK i \in DOMAIN filters : Matches(o.event, filters[i].filter)
  BY DEF MatchesOne
<1>8. o \in ToSet(cat)
  <2> DEFINE f == fs[i]
  <2>1. i \in DOMAIN fs /\ f = filters[i].filter
    BY <1>3
  <2> HIDE DEF f
  <2>2. IsFilter(f) /\ f.limit = {} /\ WholeWords(f) /\ Matches(o.event, f)
    BY <2>1, <1>2, <1>7 DEF AreFilters, Plain, f
  <2>3. Limit(f) = {}
    BY <2>2 DEF Limit
  <2>4. ToSet(Query(f)) = Relevant(f)
    BY <2>2, <2>3, QueryFindsAll
  <2>5. o \in Relevant(f)
    BY <2>2, StoreFacts DEF Relevant
  <2> QED BY <2>1, <2>4, <2>5, <1>4 DEF f
<1>9. PICK x \in ToSet(found) : Id(x) = Id(o)
  BY <1>4, <1>8
<1>10. x.event = o.event
  <2>1. x \in Stored(events)
    BY <1>4, <1>6, <1>9
  <2>2. x.event \in Events /\ o.event \in Events
    BY <2>1, StoreFacts DEF Stored
  <2> QED BY <2>2, <1>9, EventAssumption DEF Id
<1>11. PICK j \in DOMAIN es : es[j] = o.event
  <2>1. \E j \in DOMAIN found : found[j] = x
    BY <1>9 DEF ToSet
  <2> QED BY <2>1, <1>5, <1>10
<1>12. HasGot(queue', inbox[ws], ws, SubId(raw), es[j])
  BY <1>1, <1>5, EventsReach DEF RelayShape
<1> QED BY <1>11, <1>12

\* A handler for REQs goes only with all subscriptions.
LEMMA HandlersStay ==
  ASSUME StoreInv, RelayShape, SubscriptionsAreConnected, [RelayNext]_relayVars,
         "req" \notin handlers'
  PROVE  "req" \notin handlers \/ subscriptions' = None
<1>1. ASSUME NEW ws \in Sockets, NEW raw \in RawMessages[ws], Receive(ws, raw)
      PROVE  handlers' = handlers
  BY <1>1 DEF Receive, RefuseMessage, DropConnection, SimulateError, ReceiveEvent, ReceiveReq,
              ReceiveClose, ReceiveCount, ReceiveAuth, RefuseType, config
<1>2. ASSUME NEW ws \in Sockets, CloseSocket(ws) \/ FinishClose(ws) PROVE handlers' = handlers
  BY <1>2 DEF CloseSocket, FinishClose, config
<1>3. ASSUME NEW call \in calls, Settle(call) PROVE handlers' = handlers
  BY <1>3 DEF Settle, SignatureValid, SignatureInvalid, VerifierRejects, EventHandled, ReqHandled,
              CountHandled, AuthHandled, HandlerThrows, config
<1>4. Deliver \/ UNCHANGED relayVars => handlers' = handlers
  BY DEF Deliver, relayVars, config
<1>5. Test => handlers \subseteq handlers' \/ subscriptions' = None
  BY DEF Test, SetHandler, SetInfo, RelayStore, Broadcast, SendNotice, Disconnect, RelaySnapshot,
         RelayRestore, RelayReset, NoSubscriptions, config
<1> QED BY <1>1, <1>2, <1>3, <1>4, <1>5 DEF RelayNext

\* A subscription that is left has got what it asks for.
LEMMA StayersAreGiven ==
  ASSUME RelayInv, FromClients, NoneMissed, AllCompile, [RelayNext]_relayVars,
         "req" \notin handlers', saved'.nextOrder = 0,
         NEW key \in DOMAIN subscriptions', key \in DOMAIN subscriptions,
         subscriptions'[key] = subscriptions[key], sockets[key[1]] = "OPEN"
  PROVE  GivenAll(events', subscriptions'[key], queue', inbox'[key[1]], key[1], key[2])
<1>1. StoreInv /\ RelayShape /\ SubscriptionsAreConnected
  BY DEF RelayInv
<1> DEFINE filters == subscriptions[key]
<1> SUFFICES ASSUME Plain(filters), NEW o \in Stored(events'), MatchesOne(o.event, filters),
                    o # TestObject(o.event)
             PROVE  HasGot(queue', inbox'[key[1]], key[1], key[2], o.event)
  BY DEF GivenAll
<1>2. CASE saved.nextOrder = 0 /\ o \in Stored(events)
  <2>1. "req" \notin handlers
    BY <1>1, HandlersStay DEF None
  <2>2. HasGot(queue, inbox[key[1]], key[1], key[2], o.event)
    BY <1>2, <2>1 DEF NoneMissed, GivenAll
  <2>3. key[1] \in Sockets
    BY <1>1 DEF RelayShape
  <2> QED BY <2>2, <2>3, GotIsKept
<1>3. CASE Reaches(o.event)
  <2>1. key \in MatchingSubscriptions(o.event)
    BY DEF MatchingSubscriptions
  <2> QED BY <2>1, <1>3 DEF Reaches
<1>4. Announced
  BY <1>1, StepsAnnounce
<1> QED BY <1>2, <1>3, <1>4 DEF Announced

LEMMA NoneMissedIsKept ==
  ASSUME RelayInv, FromClients, NoneMissed, [RelayNext]_relayVars
  PROVE  NoneMissed'
<1>1. StoreInv /\ RelayShape /\ SubscriptionsAreConnected
  BY DEF RelayInv
<1> SUFFICES ASSUME AllCompile', "req" \notin handlers', saved'.nextOrder = 0,
                    NEW key \in DOMAIN subscriptions', sockets'[key[1]] = "OPEN"
             PROVE  GivenAll(events', subscriptions'[key], queue', inbox'[key[1]], key[1], key[2])
  BY NextNoneMissed
<1>2. \A n \in DOMAIN sent' : Compile(FiltersOf(sent'[n].raw))
  BY DEF AllCompile, Compile, FiltersOf
<1>3. AllCompile
  BY <1>1, <1>2, SentIsKept DEF AllCompile
<1>4. ASSUME key \in DOMAIN subscriptions, subscriptions'[key] = subscriptions[key],
             sockets[key[1]] = "OPEN"
      PROVE  GivenAll(events', subscriptions'[key], queue', inbox'[key[1]], key[1], key[2])
  BY <1>3, <1>4, StayersAreGiven
<1>5. ASSUME NEW ws \in Sockets, NEW raw \in RawMessages[ws], ReceiveReq(ws, raw)
      PROVE  GivenAll(events', subscriptions'[key], queue', inbox'[key[1]], key[1], key[2])
  <2>1. /\ Subscribe(ws, SubId(raw), FiltersOf(raw)) /\ Arrives(ws, raw)
        /\ sockets' = sockets /\ handlers' = handlers /\ inbox' = inbox /\ events' = events
    BY <1>5 DEF ReceiveReq, Record, config, vars, storeVars
  <2>2. CASE key = <<ws, SubId(raw)>>
    <3>1. subscriptions'[key] = FiltersOf(raw) /\ key[1] = ws /\ key[2] = SubId(raw)
      BY <2>1, <2>2 DEF Subscribe
    <3>2. N \in DOMAIN sent' /\ sent'[N].raw = raw
      <4>1. sent'[N] = [ws |-> ws, raw |-> raw] /\ N \in DOMAIN sent'
        BY <1>1, <2>1, SentGrows
      <4> QED BY <4>1
    <3>3. Compile(FiltersOf(raw))
      BY <3>2, <1>2
    <3>4. GivenAll(events, FiltersOf(raw), queue', inbox[ws], ws, SubId(raw))
      BY <3>3, <2>1, <1>1, <1>5, ReqFindsAll
    <3> QED BY <3>1, <3>4, <2>1
  <2>3. CASE key # <<ws, SubId(raw)>>
    BY <2>1, <2>3, <1>4 DEF Subscribe
  <2> QED BY <2>2, <2>3
<1>6. CASE Persist
  BY <1>4, <1>6 DEF Persist
<1> QED BY <1>1, <1>5, <1>6, SubscriptionsPersist

\* What HasGot says, told from the places.
LEMMA GotIsSomewhere ==
  ASSUME NEW ws, NEW subId, NEW e, HasGot(queue, inbox[ws], ws, subId, e)
  PROVE  \E place \in Places(ws) :
           LET message == MessageAt(ws, place)
           IN message.type = "EVENT" /\ message.subId = subId /\ message.event = e
<1>1. ASSUME NEW i \in DOMAIN inbox[ws], Gives(inbox[ws][i], subId, e)
      PROVE  \E place \in Places(ws) : Gives(MessageAt(ws, place), subId, e)
  <2>1. <<"inbox", i>> \in Places(ws) /\ MessageAt(ws, <<"inbox", i>>) = inbox[ws][i]
    BY DEF Places, MessageAt
  <2> QED BY <2>1, <1>1
<1>2. ASSUME NEW i \in DOMAIN queue, queue[i].ws = ws, Gives(queue[i].message, subId, e)
      PROVE  \E place \in Places(ws) : Gives(MessageAt(ws, place), subId, e)
  <2>1. <<"queue", i>> \in Places(ws) /\ MessageAt(ws, <<"queue", i>>) = queue[i].message
    BY <1>2 DEF Places, MessageAt
  <2> QED BY <2>1, <1>2
<1> QED BY <1>1, <1>2 DEF HasGot, Gives

\* No gap is left between the stored events a REQ finds and the broadcasts after it:
\* what each subscription asks for, of the events that the relay has published and still
\* stores, has been sent to it, as long as every filter compiles.
THEOREM NoEventIsMissed == RelaySpec => []SoundFiltersMissNothing
<1>1. RelayInit => FromClients /\ NoneMissed
  BY DEF RelayInit, FromClients, NoneMissed, None
<1>2. RelayInv /\ FromClients /\ NoneMissed /\ [RelayNext]_relayVars => FromClients' /\ NoneMissed'
  BY FromClientsIsKept, NoneMissedIsKept DEF RelayInv
<1>3. FromClients /\ NoneMissed => SoundFiltersMissNothing
  <2> SUFFICES ASSUME NoneMissed, \A n \in DOMAIN sent : Compile(FiltersOf(sent[n].raw)),
                      "req" \notin handlers, saved.nextOrder = 0,
                      NEW key \in DOMAIN subscriptions, NEW o \in Stored(events),
                      sockets[key[1]] = "OPEN", Plain(subscriptions[key]),
                      MatchesOne(o.event, subscriptions[key]), o # TestObject(o.event)
               PROVE  \E place \in Places(key[1]) :
                        LET message == MessageAt(key[1], place)
                        IN message.type = "EVENT" /\ message.subId = key[2] /\ message.event = o.event
    BY DEF SoundFiltersMissNothing, LiveEventsAreNotMissed, Plain
  <2>1. HasGot(queue, inbox[key[1]], key[1], key[2], o.event)
    BY DEF NoneMissed, AllCompile, GivenAll
  <2> QED BY <2>1, GotIsSomewhere
<1> QED BY <1>1, <1>2, <1>3, RelayInvHolds, PTL DEF RelaySpec

=============================================================================
