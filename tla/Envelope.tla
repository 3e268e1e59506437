------------------------------ MODULE Envelope ------------------------------
(***************************************************************************)
(* What becomes of an event on the wire: the codec every transport shares   *)
(* (transport/internal/envelope) and what each of them adds to it, when it  *)
(* publishes and when it builds the event of a message it received.         *)
(*                                                                         *)
(* An event is its id, its type, the optional attributes it has, its        *)
(* extensions, the content type of its data and the data.  Values are       *)
(* numbers.  A message has the attributes ce-*, its Content-Type, a body and *)
(* the carrier of the transport's own for the trace.  Encoders and decoders  *)
(* that can fail yield a set of at most one event.                          *)
(***************************************************************************)
EXTENDS Integers, FiniteSets

None == 0
Given == -7        \* the value of an attribute no property tells apart
Unfit == -8        \* a value HTTP does not accept: an id, or a correlation id, of
                   \* more than 128 bytes or not printable; a type not in UTF-8

(* The extensions.  eventname stands for whatever handlers and producers    *)
(* add; names are lowercase, since the SDK and the decoder fold them.       *)
Names == {"correlationid", "causationid", "deadletterreason", "deadlettererror",
          "eventname", "traceparent"}

Required == {"id", "specversion", "type", "source"}
Optional == {"subject", "time", "dataschema"}

NoType == ""
Json == "application/json"
Structured == "application/cloudevents+json"
ContentTypes == {NoType, Json, Structured}

(* The body of a message, or the data of an event, that is no envelope.  A  *)
(* body that is one is in the field envelope of the message.                *)
Bodies == {"payload", "garbage"}

Transports == {"sns", "pubsub", "nats", "http"}

NoExtensions == [n \in Names |-> None]

-----------------------------------------------------------------------------
(* Publishing                                                               *)

Attributes(e) == Required \cup e.optional \cup {n \in Names : e.ext[n] # None}

ValueOf(e, a) ==
  CASE a = "id" -> e.id [] a = "type" -> e.type [] a \in Names -> e.ext[a] [] OTHER -> Given

(* Mutant: an extension the mux does not know is dropped. *)
EncodeReserved(e) == [a \in Attributes(e) \ {"eventname"} |-> ValueOf(e, a)]

Encode(e) == [a \in Attributes(e) |-> ValueOf(e, a)]

ContentType(e) == IF e.contentType = NoType THEN Json ELSE e.contentType

(* Pub/Sub, NATS and HTTP: the attributes, Content-Type and the data.       *)
Binary(e) ==
  [contentType |-> ContentType(e), attrs |-> Encode(e), flawed |-> FALSE,
   body |-> e.data, envelope |-> {}]

(* The whole event in the body, whatever its data is: JSON is written       *)
(* inline and anything else in base64, so that the envelope parses.         *)
EncodeStructured(e) ==
  [contentType |-> Structured,
   attrs |-> [a \in {"id", "type", "source"} |-> ValueOf(e, a)],
   flawed |-> FALSE, body |-> "payload", envelope |-> {e}]

MaxMessageAttributes == 10

(* Mutant: no attribute is kept for the native traceparent. *)
WholeBudget == MaxMessageAttributes

binaryAttributeBudget == MaxMessageAttributes - 1

(* sns.DefaultMarshaler: Content-Type counts.                               *)
DefaultMarshaler(e) ==
  IF Cardinality(DOMAIN Encode(e)) + 1 > binaryAttributeBudget
    THEN EncodeStructured(e) ELSE Binary(e)

Marshal(transport, e) ==
  IF transport = "sns" THEN DefaultMarshaler(e) ELSE Binary(e)

(* SNS and Pub/Sub carry text, NATS and HTTP any bytes (external).  An id    *)
(* or a correlation the transport itself turns away fails like that type.  *)
Carriable(transport, e) == e.type # Unfit \/ transport \in {"nats", "http"}

(* How many attributes the broker counts: the ce-*, Content-Type and the    *)
(* native traceparent Publish adds.                                         *)
AttributeCount(m) ==
  Cardinality(DOMAIN m.attrs) + 1 + IF m.native # None THEN 1 ELSE 0

-----------------------------------------------------------------------------
(* Receiving                                                                *)

Attribute(m, a, default) == IF a \in DOMAIN m.attrs THEN m.attrs[a] ELSE default

(* The event of the attributes and the body.                                *)
FromAttributes(m, id, contentType) ==
  [id |-> Attribute(m, "id", id), type |-> Attribute(m, "type", Given),
   optional |-> Optional \cap DOMAIN m.attrs,
   ext |-> [n \in Names |-> Attribute(m, n, None)],
   contentType |-> contentType, data |-> m.body]

(* Defaults.ID: the id of the broker, where it has one.  NATS has one only  *)
(* when the publisher set Nats-Msg-Id; otherwise every read makes one up.   *)
DefaultID(m, uuid) == IF m.brokerId # None THEN m.brokerId ELSE uuid

(* A repeated attribute, a ce-time that does not parse and an event without *)
(* its required attributes are flaws.                                       *)
Decode(m, uuid) ==
  CASE m.contentType = Structured -> m.envelope
    [] m.contentType # Structured /\ m.flawed -> {}
    [] OTHER -> {FromAttributes(m, DefaultID(m, uuid),
                                IF m.contentType = NoType THEN Json ELSE m.contentType)}

(* What the router gets of a message that does not decode: its raw body,    *)
(* under its Content-Type.                                                  *)
Rescue(m, uuid) ==
  [id |-> DefaultID(m, uuid), type |-> Given, optional |-> {}, ext |-> NoExtensions,
   contentType |-> IF m.contentType = NoType THEN Json ELSE m.contentType,
   data |-> m.body]

(* A plain request: X-Message-UUID and X-Correlation-ID identify it, nothing  *)
(* else of its headers is read (plainEvent).                                *)
plainEvent(m, uuid) ==
  [id |-> DefaultID(m, uuid), type |-> Given, optional |-> {"time"},
   ext |-> [NoExtensions EXCEPT !["correlationid"] = Attribute(m, "correlationid", None)],
   contentType |-> Json, data |-> m.body]

(* HTTP: the SDK decodes both modes (external); what is no CloudEvent is    *)
(* taken if it is JSON.                                                     *)
ParseRequest(m, uuid) ==
  CASE m.contentType = Structured -> m.envelope
    [] m.contentType # Structured /\ "specversion" \in DOMAIN m.attrs ->
         IF m.flawed THEN {} ELSE {FromAttributes(m, None, m.contentType)}
    [] OTHER -> IF m.contentType = Json THEN {plainEvent(m, uuid)} ELSE {}

(* ValidateCorrelationID, of the id and the correlation, and the type.      *)
Acceptable(e) == e.id # Unfit /\ e.type # Unfit /\ e.ext["correlationid"] # Unfit

(* Anything else is answered 4xx.  A missing correlation is the mux's       *)
(* Correlated to fill in: it would do the same.                             *)
extractCloudEvent(m, uuid) == {e \in ParseRequest(m, uuid) : Acceptable(e)}

Extract(m, uuid) ==
  IF m.transport = "http" THEN extractCloudEvent(m, uuid) ELSE Decode(m, uuid)

=============================================================================
