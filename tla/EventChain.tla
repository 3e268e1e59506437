----------------------------- MODULE EventChain -----------------------------
(***************************************************************************)
(* Events derived from one another, over successive hops: the mux adds the  *)
(* correlation, the causation, the mark of a dead-letter copy, the metadata *)
(* of its handlers and the trace (pkg/eventmux, pkg/event), the transports  *)
(* take each event over the wire as Envelope says, and another mux reads it *)
(* there.                                                                   *)
(*                                                                         *)
(* A published message stays where it can be handled again: redelivered,    *)
(* or by another consumer.  So does a dead-letter copy, when somebody       *)
(* injects it again.                                                        *)
(***************************************************************************)
EXTENDS Envelope

CONSTANTS
  MaxMessages,  \* bound: messages published, the first one included
  MaxKeys,      \* bound: metadata keys set in one call of a handler
  Hops          \* the transports messages are published to

ASSUME ChainAssumption ==
  MaxMessages \in Nat \ {0} /\ MaxKeys \in Nat /\ Hops \subseteq Transports

VARIABLE messages

reservedExtensions == {"correlationid", "causationid", "deadletterreason", "deadlettererror"}

(* A metadata key is a name as an extension spells it, or in mixed case.    *)
Keys == [name : Names \ {"deadlettererror"}, lower : BOOLEAN]

Client == -1       \* a correlation id the client chose
Producer == -2     \* an eventname the producer chose
Carrier == -3      \* a trace of the transport's own carrier
Extension == -4    \* a trace of the event
NewTrace == -5     \* a trace started by the mux
Failed == -6       \* why an event is in the dead-letter topic

(* The ids of step n: what the reader and the mux make up, and the broker.  *)
ReaderId(n) == 3 * n + 1
ResultId(n) == 3 * n + 2
BrokerId(n) == 3 * n + 3

Events == [id : Int, type : {Given, Unfit}, optional : SUBSET Optional, ext : [Names -> Int],
           contentType : ContentTypes, data : Bodies]

vars == <<messages>>

-----------------------------------------------------------------------------
(* Entering the mux: the transport that built the message, then handle.     *)

(* Mutant: an event always identifies its own chain. *)
CorrelatedByItself(e) == [e EXCEPT !.ext["correlationid"] = e.id]

Correlated(e) ==
  IF e.ext["correlationid"] = None /\ e.id # None
    THEN [e EXCEPT !.ext["correlationid"] = e.id] ELSE e

(* Mutant: a trace is only inherited from the transport. *)
CarrierOrNewTrace(native, extension) == IF native # None THEN native ELSE NewTrace

inheritOrNewTrace(native, extension) ==
  CASE native # None -> native
    [] native = None /\ extension # None -> extension
    [] OTHER -> NewTrace

(* What the router handles.  A message that does not decode is handled too, *)
(* except over HTTP; its trace is the carrier's.                            *)
Received(m, native, uuid) ==
  {[event |-> Correlated(e), decoded |-> TRUE,
    trace |-> inheritOrNewTrace(native, e.ext["traceparent"])] : e \in Extract(m, uuid)}
  \cup
  {[event |-> Correlated(Rescue(m, uuid)), decoded |-> FALSE,
    trace |-> inheritOrNewTrace(native, None)] :
      none \in IF Extract(m, uuid) = {} /\ m.transport # "http" THEN {None} ELSE {}}

-----------------------------------------------------------------------------
(* The first message: of a client or a producer, in either mode, with or    *)
(* without the attributes of a CloudEvent, or not what it claims to be.     *)

FirstEvents ==
  [id : {None, ResultId(0)}, type : {Given}, optional : {{}, {"subject", "time"}},
   ext : [Names -> {None, Client, Producer, Extension}], contentType : {NoType, Json},
   data : {"payload"}]

(* Which values an extension may have: one of its own, or none.             *)
Sensible(ext) ==
  \A n \in Names :
    ext[n] \in CASE n = "correlationid" -> {None, Client}
                 [] n = "eventname" -> {None, Producer}
                 [] n = "traceparent" -> {None, Extension}
                 [] OTHER -> {None}

(* An event with one of the values HTTP does not accept.                    *)
UnfitEvents ==
  LET plain == [id |-> ResultId(0), type |-> Given, optional |-> {}, ext |-> NoExtensions,
                contentType |-> Json, data |-> "payload"]
  IN  {[plain EXCEPT !.id = Unfit], [plain EXCEPT !.type = Unfit],
       [plain EXCEPT !.ext["correlationid"] = Unfit]}

FirstContents(transport) ==
  LET Of(e) == IF e.id # None THEN Binary(e)
               ELSE [Binary(e) EXCEPT !.contentType = e.contentType,
                                      !.attrs = [a \in DOMAIN @ \ Required |-> @[a]]]
      events == {e \in FirstEvents : Sensible(e.ext)}
      Garbage(content) == [content EXCEPT !.contentType = Structured, !.body = "garbage"]
  IN  {Of(e) : e \in events}
      \cup {[Of(e) EXCEPT !.flawed = TRUE] : e \in {x \in events : x.id # None}}
      \cup {EncodeStructured(e) : e \in {x \in events : x.id # None}}
      \cup {Garbage(Of(e)) : e \in {x \in events : x.contentType = NoType}}
      \cup {Binary(e) : e \in {x \in UnfitEvents : Carriable(transport, x)}}
      \cup {EncodeStructured(e) : e \in {x \in UnfitEvents : x.type # Unfit}}

NoEvent ==
  [id |-> None, type |-> Given, optional |-> {}, ext |-> NoExtensions, contentType |-> NoType,
   data |-> "payload"]

(* A message in a topic.                                                    *)
Message(transport, content, native, brokerId) ==
  [transport |-> transport, contentType |-> content.contentType, attrs |-> content.attrs,
   flawed |-> content.flawed, body |-> content.body, envelope |-> content.envelope,
   native |-> native, brokerId |-> brokerId]

(* The broker's id; Nats-Msg-Id, which TrackMsgID sets, or a producer, as   *)
(* it likes; the X-Message-UUID of a client.                                *)
BrokerIds(transport, id, n) ==
  CASE transport \in {"sns", "pubsub"} -> {BrokerId(n)}
    [] transport \in {"nats", "http"} /\ n = 0 -> {None, id, Unfit}
    [] transport = "nats" /\ n # 0 -> {None, id}
    [] OTHER -> {None}

(* What all reads find that find anything.                                  *)
Known(values) ==
  IF values \ {NewTrace} = {} THEN None ELSE CHOOSE v \in values \ {NewTrace} : TRUE

(* wire is the message, nth its place among them.  History: handled is the  *)
(* id of the event it derives from; published the event; root and trail the *)
(* correlation and the trace of the chain, where they are the same at every *)
(* read; lost, that a message on the way did not decode; fit, that the      *)
(* chain began with values every transport accepts.                         *)
Init ==
  \E transport \in Hops, native \in {None, Carrier} :
    \E content \in FirstContents(transport), brokerId \in BrokerIds(transport, BrokerId(0), 0) :
      LET wire == Message(transport, content, native, brokerId)
          reads == Received(wire, native, None)
      IN  messages =
            {[wire |-> wire, kind |-> "entry", nth |-> 1, handled |-> None,
              published |-> NoEvent,
              root |-> Known({r.event.ext["correlationid"] : r \in reads}),
              trail |-> Known({r.trace : r \in reads}),
              forged |-> FALSE, lost |-> FALSE,
              fit |-> \A r \in reads : Acceptable(r.event)]}

-----------------------------------------------------------------------------
Count == Cardinality(messages)

(* A transport's Publish: the trace of the context goes over the extension, *)
(* then the event on the wire and the trace in the transport's own carrier. *)
Publish(m, r, kind, e, transport, forged) ==
  LET traced == [e EXCEPT !.ext["traceparent"] = r.trace]
  IN  /\ Carriable(transport, e)
      /\ \E brokerId \in BrokerIds(transport, e.id, Count) :
           messages' = messages \cup
             {[wire |-> Message(transport, Marshal(transport, traced), r.trace, brokerId),
               kind |-> kind, nth |-> Count + 1, handled |-> r.event.id,
               published |-> traced,
               root |-> IF m.root # None THEN m.root ELSE r.event.ext["correlationid"],
               trail |-> IF m.trail # None THEN m.trail ELSE r.trace,
               forged |-> forged,
               lost |-> m.lost \/ (m.kind # "entry" /\ ~r.decoded),
               fit |-> m.fit]}

(* The reserved keys are looked up, and dropped, as they are spelled.       *)
Kept(meta) == {k \in meta : ~(k.lower /\ k.name \in reservedExtensions)}

(* Mutant: the parent's extensions are all carried over. *)
CarriesEverything(ext, meta, n) ==
  ext[n] # None /\ [name |-> n, lower |-> TRUE] \notin Kept(meta)

(* The parent's extensions, unless a key of the handler overrides them.     *)
Carries(ext, meta, n) ==
  /\ ext[n] # None
  /\ [name |-> n, lower |-> TRUE] \notin Kept(meta)
  /\ n \notin {"causationid", "deadletterreason", "deadlettererror"}

(* Mutant: causationid is the event the chain began with. *)
ResultExtensionsFirst(e, meta, id) ==
  [n \in Names |->
     CASE n = "causationid" -> e.ext["correlationid"]
       [] Carries(e.ext, meta, n) -> e.ext[n]
       [] OTHER -> IF \E k \in Kept(meta) : k.name = n THEN id ELSE None]

(* The handler's metadata is set first, every value being the result's id,  *)
(* then the extensions carried over, then the causation.                    *)
ResultExtensions(e, meta, id) ==
  [n \in Names |->
     CASE n = "causationid" /\ e.id # None -> e.id
       [] Carries(e.ext, meta, n) -> e.ext[n]
       [] OTHER -> IF \E k \in Kept(meta) : k.name = n THEN id ELSE None]

publishResult(m, r, meta, transport) ==
  LET id == ResultId(Count)
  IN  /\ r.decoded
      /\ Publish(m, r, "result",
           [id |-> id, type |-> r.event.type, optional |-> {"time"}, ext |-> ResultExtensions(r.event, meta, id),
            contentType |-> Json, data |-> "payload"],
           transport,
           \E k \in meta : ~k.lower /\ k.name = "deadletterreason")

(* deadLetterEvent: the event as it came in, with the mark of its failure.  *)
deadLetterEvent(e) ==
  [e EXCEPT !.ext["deadletterreason"] = Failed, !.ext["deadlettererror"] = Failed]

publishDeadLetter(m, r, transport) ==
  Publish(m, r, "copy", deadLetterEvent(r.event), transport, FALSE)

(* A message is read: the carrier of the trace may be gone by then.         *)
Handle(m, transport) ==
  /\ Count < MaxMessages
  /\ \E native \in IF m.kind = "entry" THEN {m.wire.native} ELSE {m.wire.native, None} :
    \E r \in Received(m.wire, native, ReaderId(Count)) :
      \/ \E meta \in {s \in SUBSET Keys : Cardinality(s) <= MaxKeys} :
           publishResult(m, r, meta, transport)
      \/ publishDeadLetter(m, r, transport)

Next == \E m \in messages, transport \in Hops : Handle(m, transport)

Spec == Init /\ [][Next]_vars

-----------------------------------------------------------------------------
Derived == {m \in messages : m.kind # "entry"}

(* Whoever reads a message reads the event that was published, whichever    *)
(* mode its attributes made it go in, and everybody can read it: what is    *)
(* published over HTTP is refused there only when the chain began, on       *)
(* another transport, with an id, a type or a correlation id HTTP does not  *)
(* accept.  Data under the content type of an envelope is excepted          *)
(* (Encode, Decode, DefaultMarshaler, extractCloudEvent).                   *)
ReadsAsPublished ==
  \A m \in Derived : m.published.contentType # Structured =>
    LET read == {[e EXCEPT !.contentType = ContentType(e)] : e \in Extract(m.wire, None)}
    IN  /\ read \subseteq {[m.published EXCEPT !.contentType = ContentType(m.published)]}
        /\ m.fit \/ m.wire.transport # "http" => read # {}

(* No event is turned away by SNS or SQS for its attributes, the native     *)
(* traceparent included, whatever a chain adds to it (Publisher.Publish).   *)
AttributesFit ==
  \A m \in Derived : m.wire.transport = "sns" => AttributeCount(m.wire) <= MaxMessageAttributes

(* One correlation for the whole chain: the client's, or the id of the      *)
(* first event, through results, copies, redeliveries, both modes of the    *)
(* wire and whatever handlers put in their metadata (handle,                *)
(* publishResult).                                                          *)
CorrelationKept ==
  \A m \in Derived : ~m.lost =>
    \A e \in Extract(m.wire, None) : e.ext["correlationid"] = m.root

(* A result says it was caused by the event handled, never by an earlier    *)
(* one, and the second result of a redelivered event says the same          *)
(* (publishResult).                                                         *)
CausationIsParent ==
  \A m \in Derived : m.kind = "result" =>
    \A e \in Extract(m.wire, None) : e.ext["causationid"] = m.handled

(* A result is never marked as failed because the event it derives from     *)
(* was: the copy of a dead letter that is injected again and succeeds.      *)
ResultNotMarked ==
  \A m \in Derived : m.kind = "result" /\ ~m.forged =>
    \A e \in Extract(m.wire, None) : e.ext["deadletterreason"] = None

(* The trace of a chain survives transports that strip their own carrier,   *)
(* messages that do not decode and metadata that claims to be a trace       *)
(* (InjectTraceFromContext, inheritOrNewTrace).                             *)
TraceKept ==
  \A m \in Derived : ~m.lost =>
    /\ m.wire.native = m.trail
    /\ \A e \in Extract(m.wire, None) : e.ext["traceparent"] = m.trail

-----------------------------------------------------------------------------
(* What the documentation says and the code does not keep.                  *)


=============================================================================
