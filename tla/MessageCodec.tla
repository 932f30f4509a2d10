---------------------------- MODULE MessageCodec ----------------------------
(***************************************************************************)
(* src/src/relay/message_codec.ts: parseClientMessage, which either refuses*)
(* a message with the first thing that is wrong with it or hands it on.    *)
(* It has no state; the limits come from the relay information that        *)
(* setInfo sets, as #getMessageValidationLimits of src/src/relay.ts reads  *)
(* it, where they are numbers that make sense, and from the defaults.      *)
(*                                                                         *)
(* A raw message has its length in bytes, whether it is JSON, and the      *)
(* items of the array it is, <<>> standing for anything else. A JSON value *)
(* says what it is, and has the fields that matter then: a string its text *)
(* and bytes; an object the names of the fields of an event that have the  *)
(* right type (`valid'), the number of its tags and the bytes of its       *)
(* content, or, as a filter, its limit if that is a number.                *)
(***************************************************************************)
EXTENDS Integers, Sequences, FiniteSetsExt

DefaultLimits ==
  [maxMessageLength |-> 1024 * 1024, maxFilterCount |-> 32, maxSubIdLength |-> 256,
   maxLimitValue |-> 10000, maxEventTags |-> 2048, maxContentLength |-> 256 * 1024]

\* getLimit: what the relay advertises, unless it is missing or negative.
GetLimit(limitation, field, default) ==
  IF field \in DOMAIN limitation /\ limitation[field] >= 0 THEN limitation[field] ELSE default

\* #getMessageValidationLimits and resolveLimits; nobody can set the filter count.
ResolveLimits(limitation) ==
  LET Resolve(field, limit) == GetLimit(limitation, field, DefaultLimits[limit])
  IN [maxMessageLength |-> Resolve("max_message_length", "maxMessageLength"),
      maxFilterCount |-> DefaultLimits.maxFilterCount,
      maxSubIdLength |-> Resolve("max_subid_length", "maxSubIdLength"),
      maxLimitValue |-> Resolve("max_limit", "maxLimitValue"),
      maxEventTags |-> Resolve("max_event_tags", "maxEventTags"),
      maxContentLength |-> Resolve("max_content_length", "maxContentLength")]

-----------------------------------------------------------------------------

EventFields == {"id", "pubkey", "created_at", "kind", "tags", "content", "sig"}

IsString(value) == value.is = "string"

\* isRecord and isFilterShape; isEventShape
IsFilterShape(value) == value.is = "object"
IsEventShape(value) == value.is = "object" /\ EventFields \subseteq value.valid

\* What the codec reads, said of the fields it looks at: JSON.parse gives nothing else.
IsRawMessage(raw) ==
  /\ raw.length \in Nat
  /\ raw.items \in Seq({raw.items[i] : i \in DOMAIN raw.items})
  /\ \A i \in DOMAIN raw.items :
       LET value == raw.items[i]
       IN /\ IsString(value) => value.bytes \in Nat
          /\ IsFilterShape(value) => value.valid \subseteq EventFields
          /\ IsEventShape(value) => value.tags \in Nat /\ value.bytes \in Nat
          /\ IsFilterShape(value) /\ "limit" \in DOMAIN value => value.limit \in Int

IsLimitation(limitation) == \A field \in DOMAIN limitation : limitation[field] \in Int

\* The errors of error_messages.ts, by name.
Accepted == <<"accepted">>

\* validateEventLimits, for EVENT and AUTH.
EventError(type, items, limits) ==
  IF Len(items) < 2 \/ ~IsEventShape(items[2]) THEN <<"malformed", type>>
  ELSE IF items[2].tags > limits.maxEventTags THEN <<"tags exceed max_event_tags", type>>
  ELSE IF items[2].bytes > limits.maxContentLength
    THEN <<"content exceeds max_content_length", type>>
  ELSE Accepted

\* The subscription id of REQ, COUNT and CLOSE.
SubIdError(type, items, limits) ==
  IF Len(items) < 2 \/ ~IsString(items[2]) THEN <<"malformed", type>>
  ELSE IF items[2].bytes > limits.maxSubIdLength
    THEN <<"subscription id exceeds max_subid_length", type>>
  ELSE Accepted

\* (mutant) A limit of the very maximum is too much.
LimitReachesMax(value, limits) == "limit" \in DOMAIN value /\ value.limit >= limits.maxLimitValue

\* validateFilterLimit
LimitExceedsMax(value, limits) == "limit" \in DOMAIN value /\ value.limit > limits.maxLimitValue

\* The first filter at fault decides.
FilterError(type, items, limits) ==
  LET faulty == {i \in 3..Len(items) :
                   ~IsFilterShape(items[i]) \/ LimitExceedsMax(items[i], limits)}
      first == Min(faulty)
  IN IF Len(items) < 3 THEN <<"requires at least one filter", type>>
     ELSE IF Len(items) - 2 > limits.maxFilterCount THEN <<"exceeds filter count limit", type>>
     ELSE IF faulty = {} THEN Accepted
     ELSE IF ~IsFilterShape(items[first])
       THEN <<"filter must be an object", type, first - 3>>
     ELSE <<"limit exceeds max_limit", type, first - 3>>

\* parseClientMessage: the type decides what is looked at; one that nobody knows is
\* handed on, for the router to refuse.
ParseClientMessage(raw, limitation) ==
  LET limits == ResolveLimits(limitation)
      type == IF IsString(Head(raw.items)) THEN Head(raw.items).text ELSE "none"
  IN IF raw.length > limits.maxMessageLength THEN <<"message exceeds max_message_length">>
     ELSE IF ~raw.json THEN <<"invalid JSON">>
     ELSE IF raw.items = <<>> THEN <<"invalid message format">>
     ELSE IF type \in {"EVENT", "AUTH"} THEN EventError(type, raw.items, limits)
     ELSE IF type \in {"REQ", "COUNT"} /\ SubIdError(type, raw.items, limits) = Accepted
       THEN FilterError(type, raw.items, limits)
     ELSE IF type \in {"REQ", "COUNT", "CLOSE"} THEN SubIdError(type, raw.items, limits)
     ELSE Accepted

-----------------------------------------------------------------------------
(***************************************************************************)
(* What the relay may take for granted of a message that was not refused,  *)
(* said of the message and of the relay information, without the order of  *)
(* the checks.                                                             *)
(***************************************************************************)

Within(limitation, field, default, n) ==
  n <= (IF field \in DOMAIN limitation /\ limitation[field] >= 0
          THEN limitation[field] ELSE default)

HasEvent(items, limitation) ==
  /\ Len(items) >= 2
  /\ items[2].is = "object" /\ items[2].valid = EventFields
  /\ Within(limitation, "max_event_tags", 2048, items[2].tags)
  /\ Within(limitation, "max_content_length", 262144, items[2].bytes)

HasSubId(items, limitation) ==
  /\ Len(items) >= 2
  /\ items[2].is = "string"
  /\ Within(limitation, "max_subid_length", 256, items[2].bytes)

HasFilters(items, limitation) ==
  /\ Len(items) \in 3..34
  /\ \A i \in 3..Len(items) :
       /\ items[i].is = "object"
       /\ "limit" \in DOMAIN items[i] => Within(limitation, "max_limit", 10000, items[i].limit)

Acceptable(raw, limitation) ==
  /\ raw.json /\ raw.items # <<>>
  /\ Within(limitation, "max_message_length", 1048576, raw.length)
  /\ raw.items[1].is = "string" =>
       LET type == raw.items[1].text
       IN /\ type \in {"EVENT", "AUTH"} => HasEvent(raw.items, limitation)
          /\ type \in {"REQ", "COUNT", "CLOSE"} => HasSubId(raw.items, limitation)
          /\ type \in {"REQ", "COUNT"} => HasFilters(raw.items, limitation)

=============================================================================
