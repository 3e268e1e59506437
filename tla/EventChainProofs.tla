-------------------------- MODULE EventChainProofs --------------------------
(***************************************************************************)
(* What every reader of a message gets, and what a chain of events keeps    *)
(* (EventChain), for any number of messages.                                *)
(*                                                                         *)
(* The argument: whatever the codec does to an event that it publishes, a   *)
(* reader that decodes anything gets the same id and extensions back, so    *)
(* that what a chain keeps can be told from the events published.  Every    *)
(* event handled has an id and, with it, a correlation; and what a chain    *)
(* that began fit for HTTP handles is fit for it, rescues included.         *)
(***************************************************************************)
EXTENDS EventChain, FiniteSetTheorems, TLAPS

Identified == {e \in Events : e.id # None}

(* What may stand in a message: if it says that it is a CloudEvent, it has  *)
(* an id, and an envelope that parses is the event of somebody.             *)
Readable(c) ==
  /\ c.contentType \in ContentTypes /\ c.body \in Bodies
  /\ \A a \in DOMAIN c.attrs : c.attrs[a] \in Int
  /\ "id" \in DOMAIN c.attrs => c.attrs["id"] # None
  /\ "type" \in DOMAIN c.attrs => c.attrs["type"] \in {Given, Unfit}
  /\ "specversion" \in DOMAIN c.attrs => "id" \in DOMAIN c.attrs
  /\ \A e \in c.envelope : e \in Events /\ e.id # None
  /\ \A d, e \in c.envelope : d = e

(* A message as a broker may carry it.                                      *)
Sound(w) ==
  Readable(w) /\ w.transport \in Transports /\ w.native \in Int /\ w.brokerId \in Int

(* A message of the mux is its event, encoded.                              *)
Encoded(m) ==
  /\ m.published \in Events /\ m.published.id # None
  /\ m.wire = Message(m.wire.transport, Marshal(m.wire.transport, m.published),
                      m.wire.native, m.wire.brokerId)

(* What it carries of its chain.                                            *)
Inherited(m) ==
  /\ m.wire.native = m.published.ext["traceparent"]
  /\ ~m.lost => /\ m.trail # None /\ m.published.ext["traceparent"] = m.trail
                /\ m.root # None /\ m.published.ext["correlationid"] = m.root
  /\ m.kind = "result" => m.published.ext["causationid"] = m.handled
  /\ m.kind = "result" /\ ~m.forged => m.published.ext["deadletterreason"] = None
  /\ m.fit => Acceptable(m.published) /\ m.wire.brokerId # Unfit

(* What the readers of the first message find, when they all find the same. *)
Begins(m) ==
  /\ ~m.lost
  /\ \A n \in 0 .. MaxMessages : \A r \in Received(m.wire, m.wire.native, ReaderId(n)) :
       /\ m.root # None => r.event.ext["correlationid"] = m.root
       /\ m.trail # None => r.trace = m.trail
       /\ m.fit => Acceptable(r.event)

ChainInv ==
  /\ IsFiniteSet(messages)
  /\ \A m \in messages : Sound(m.wire) /\ m.kind \in {"entry", "result", "copy"}
  /\ \A m \in Derived : Encoded(m) /\ Inherited(m)
  /\ \A m \in messages : m.fit \in BOOLEAN
  /\ \A m \in messages \ Derived : Begins(m)

-----------------------------------------------------------------------------
(* The codec                                                                *)

(* An event has finitely many attributes, so that they can be counted.      *)
LEMMA AttributesFinite ==
  ASSUME NEW e \in Events
  PROVE  IsFiniteSet(Attributes(e)) /\ Cardinality(Attributes(e)) \in Nat
<1>1. IsFiniteSet(Required \cup Optional \cup Names)
  <2>1. \A a, b, c, d : IsFiniteSet({a, b, c, d})
    <3> TAKE a, b, c, d
    <3>1. {a, b, c, d} = ({a} \cup {b}) \cup ({c} \cup {d})
      OBVIOUS
    <3>2. IsFiniteSet({a} \cup {b}) /\ IsFiniteSet({c} \cup {d})
      BY FS_Singleton, FS_Union
    <3>3. IsFiniteSet(({a} \cup {b}) \cup ({c} \cup {d}))
      BY <3>2, FS_Union
    <3> QED BY <3>1, <3>3
  <2>2. Required \cup Optional \cup Names =
           {"id", "specversion", "type", "source"}
             \cup {"subject", "time", "dataschema", "eventname"}
             \cup {"correlationid", "causationid", "deadletterreason", "deadlettererror"}
             \cup {"traceparent", "traceparent", "traceparent", "traceparent"}
    BY DEF Required, Optional, Names
  <2> QED BY <2>1, <2>2, FS_Union
<1>2. Attributes(e) \subseteq Required \cup Optional \cup Names
  BY DEF Attributes, Events
<1> QED BY <1>1, <1>2, FS_Subset, FS_CardinalityType

(* What is encoded is whole: each attribute of the event (Encode).          *)
LEMMA Encodes ==
  ASSUME NEW e \in Events
  PROVE  /\ DOMAIN Encode(e) = Attributes(e)
         /\ Encode(e)["id"] = e.id /\ Encode(e)["type"] = e.type
         /\ \A n \in Names : n \in DOMAIN Encode(e) <=> e.ext[n] # None
         /\ \A n \in Names : n \in DOMAIN Encode(e) => Encode(e)[n] = e.ext[n]
         /\ \A a \in DOMAIN Encode(e) : Encode(e)[a] \in Int
         /\ Optional \cap DOMAIN Encode(e) = e.optional
         /\ Required \subseteq DOMAIN Encode(e)
<1>1. DOMAIN Encode(e) = Attributes(e)
  BY DEF Encode
<1>2. /\ e.id \in Int /\ e.type \in Int
      /\ e.optional \subseteq Optional /\ e.ext \in [Names -> Int]
  BY DEF Events, Given, Unfit
<1>3. Required \cap Names = {} /\ Required \cap Optional = {} /\ Optional \cap Names = {}
  BY DEF Required, Optional, Names
<1>4. Required \subseteq DOMAIN Encode(e) /\ Optional \cap DOMAIN Encode(e) = e.optional
  BY <1>1, <1>2, <1>3 DEF Attributes
<1>5. \A n \in Names : n \in DOMAIN Encode(e) <=> e.ext[n] # None
  BY <1>1, <1>2, <1>3 DEF Attributes
<1>6. "id" \in Attributes(e) /\ "type" \in Attributes(e)
  BY DEF Attributes, Required
<1>7. Encode(e)["id"] = e.id /\ Encode(e)["type"] = e.type
  BY <1>3, <1>6 DEF Encode, ValueOf, Required
<1>8. \A n \in Names : n \in DOMAIN Encode(e) => Encode(e)[n] = e.ext[n]
  <2>1. "id" \notin Names /\ "type" \notin Names
    BY DEF Names
  <2> QED BY <1>1, <2>1 DEF Encode, ValueOf
<1>9. \A a \in DOMAIN Encode(e) : Encode(e)[a] \in Int
  BY <1>1, <1>2 DEF Encode, ValueOf, Given
<1> QED BY <1>1, <1>4, <1>5, <1>7, <1>8, <1>9

(* What Marshal makes can be read (Marshal).                                *)
LEMMA MarshalReadable ==
  ASSUME NEW e \in Events, e.id # None, NEW transport
  PROVE  Readable(Binary(e)) /\ Readable(EncodeStructured(e)) /\ Readable(Marshal(transport, e))
<1>1. /\ e.contentType \in ContentTypes /\ e.data \in Bodies
      /\ e.id \in Int /\ e.type \in {Given, Unfit} /\ e.type \in Int
  BY DEF Events, Given, Unfit
<1>2. Readable(Binary(e))
  <2>1. ContentType(e) \in ContentTypes
    BY <1>1 DEF ContentType, ContentTypes
  <2>2. Required = {"id", "specversion", "type", "source"}
    BY DEF Required
  <2> QED BY <1>1, <2>1, <2>2, Encodes DEF Readable, Binary
<1>3. Readable(EncodeStructured(e))
  <2> DEFINE c == EncodeStructured(e)
  <2>1. c.attrs = [a \in {"id", "type", "source"} |-> ValueOf(e, a)] /\ "source" \notin Names
    BY DEF EncodeStructured, Names
  <2>2. "id" \notin Names /\ "type" \notin Names
    BY DEF Names
  <2>3. ValueOf(e, "id") = e.id /\ ValueOf(e, "type") = e.type /\ ValueOf(e, "source") = Given
    BY <2>1, <2>2 DEF ValueOf
  <2>4. c.contentType \in ContentTypes /\ c.body \in Bodies /\ c.envelope = {e}
    BY DEF EncodeStructured, ContentTypes, Bodies
  <2> HIDE DEF c
  <2>5. Readable(c)
    BY <1>1, <2>1, <2>3, <2>4 DEF Readable, Given
  <2> QED BY <2>5 DEF c
<1> QED BY <1>2, <1>3 DEF Marshal, DefaultMarshaler

(* The same event, but for the content type that an absent one stands for.  *)
Same(x, e) ==
  /\ x.id = e.id /\ x.type = e.type /\ x.optional = e.optional /\ x.ext = e.ext /\ x.data = e.data
  /\ ContentType(x) = ContentType(e)

(* A reader gets the event that was published, or nothing: where its        *)
(* content type claims that its data is an envelope, and over HTTP where    *)
(* one of its values is refused there (Marshal, Extract).                   *)
LEMMA RoundTrip ==
  ASSUME NEW e \in Events, e.id # None, NEW transport, NEW native, NEW brokerId, NEW uuid,
         NEW w, w = Message(transport, Marshal(transport, e), native, brokerId)
  PROVE  /\ \A x \in Extract(w, uuid) : x \in Events /\ Same(x, e)
         /\ e.contentType # Structured /\ (Acceptable(e) \/ transport # "http")
              => Extract(w, uuid) # {}
<1>1. e.contentType \in ContentTypes /\ e.data \in Bodies /\ e.id \in Int
      /\ e.type \in {Given, Unfit} /\ e.optional \subseteq Optional /\ e.ext \in [Names -> Int]
  BY DEF Events
<1>2. w.transport = transport
  BY DEF Message
<1>3. CASE Marshal(transport, e) = EncodeStructured(e)
  <2>1. w.contentType = Structured /\ w.envelope = {e}
    BY <1>3 DEF Message, EncodeStructured
  <2>2. Extract(w, uuid) = {x \in {e} : transport = "http" => Acceptable(x)}
    BY <1>2, <2>1 DEF Extract, extractCloudEvent, ParseRequest, Decode
  <2> QED BY <2>2 DEF Same
<1>4. CASE Marshal(transport, e) = Binary(e)
  <2>1. /\ w.contentType = ContentType(e) /\ w.attrs = Encode(e) /\ w.flawed = FALSE
        /\ w.body = e.data /\ w.envelope = {}
    BY <1>4 DEF Message, Binary
  <2>2. CASE ContentType(e) = Structured
    <3>1. Extract(w, uuid) = {}
      BY <2>1, <2>2 DEF Extract, extractCloudEvent, ParseRequest, Decode
    <3>2. e.contentType = Structured
      BY <2>2 DEF ContentType, Json, Structured
    <3> QED BY <3>1, <3>2
  <2>3. CASE ContentType(e) # Structured
    <3>1. ContentType(e) # NoType /\ ContentType(e) \in ContentTypes
      BY <1>1 DEF ContentType, NoType, Json, ContentTypes
    <3>2. "specversion" \in DOMAIN w.attrs /\ "id" \in DOMAIN w.attrs
      BY <2>1, Encodes DEF Required
    <3>3. PICK id : Extract(w, uuid) = {x \in {FromAttributes(w, id, ContentType(e))} :
                                          transport = "http" => Acceptable(x)}
      <4>1. CASE transport = "http"
        BY <1>2, <2>1, <2>3, <3>1, <3>2, <4>1 DEF Extract, extractCloudEvent, ParseRequest
      <4>2. CASE transport # "http"
        BY <1>2, <2>1, <2>3, <3>1, <4>2 DEF Extract, Decode
      <4> QED BY <4>1, <4>2
    <3> DEFINE x == FromAttributes(w, id, ContentType(e))
    <3>4. x.id = e.id /\ x.type = e.type
      BY <2>1, <3>2, Encodes DEF FromAttributes, Attribute, Required
    <3>5. x.optional = e.optional
      BY <2>1, Encodes DEF FromAttributes
    <3>6. x.ext = e.ext
      <4>1. x.ext = [n \in Names |-> Attribute(w, n, None)]
        BY DEF FromAttributes
      <4>2. \A n \in Names : Attribute(w, n, None) = e.ext[n]
        BY <2>1, Encodes DEF Attribute
      <4> QED BY <1>1, <4>1, <4>2
    <3>7. x.data = e.data /\ x.contentType = ContentType(e)
      BY <2>1 DEF FromAttributes
    <3>8. ContentType(x) = ContentType(e)
      BY <3>1, <3>7 DEF ContentType
    <3>9. x \in Events
      <4>1. x = [id |-> x.id, type |-> x.type, optional |-> x.optional, ext |-> x.ext,
                 contentType |-> x.contentType, data |-> x.data]
        BY DEF FromAttributes
      <4> HIDE DEF x
      <4> QED BY <1>1, <3>1, <3>4, <3>5, <3>6, <3>7, <4>1 DEF Events
    <3>10. Same(x, e) /\ (Acceptable(x) <=> Acceptable(e))
      BY <3>4, <3>5, <3>6, <3>7, <3>8 DEF Same, Acceptable
    <3> HIDE DEF x
    <3> QED BY <3>3, <3>9, <3>10 DEF x
  <2> QED BY <2>2, <2>3
<1> QED BY <1>3, <1>4 DEF Marshal, DefaultMarshaler

-----------------------------------------------------------------------------
(* Reading                                                                  *)

(* The id a reader makes up identifies the event that has none (Defaults).  *)
LEMMA FromAttributesEvent ==
  ASSUME NEW w, Readable(w), NEW id \in Int, NEW type \in ContentTypes
  PROVE  /\ FromAttributes(w, id, type) \in Events
         /\ id # None \/ "id" \in DOMAIN w.attrs => FromAttributes(w, id, type).id # None
         /\ "id" \in DOMAIN w.attrs => FromAttributes(w, id, type).id = w.attrs["id"]
<1>1. \A a : Attribute(w, a, id) \in Int /\ Attribute(w, a, None) \in Int
  BY DEF Attribute, Readable, None
<1>2. [n \in Names |-> Attribute(w, n, None)] \in [Names -> Int]
  BY <1>1
<1>3. w.body \in Bodies
  BY DEF Readable
<1>4. Attribute(w, "type", Given) \in {Given, Unfit}
  BY DEF Attribute, Readable
<1>5. FromAttributes(w, id, type) \in Events
  BY <1>1, <1>2, <1>3, <1>4 DEF FromAttributes, Events
<1>6. FromAttributes(w, id, type).id = Attribute(w, "id", id)
  BY DEF FromAttributes
<1> QED BY <1>5, <1>6 DEF Attribute, Readable

LEMMA ReadsEvents ==
  ASSUME NEW w, Sound(w), NEW uuid \in Int
  PROVE  /\ \A x \in Extract(w, uuid) : x \in Events /\ (uuid # None => x.id # None)
         /\ Rescue(w, uuid) \in Events /\ (uuid # None => Rescue(w, uuid).id # None)
<1>1. DefaultID(w, uuid) \in Int /\ (uuid # None => DefaultID(w, uuid) # None)
  BY DEF DefaultID, Sound
<1>2. w.contentType \in ContentTypes /\ w.body \in Bodies /\ Readable(w)
  BY DEF Sound, Readable
<1>3. NoExtensions \in [Names -> Int] /\ Json \in ContentTypes /\ None \in Int
  BY DEF NoExtensions, None, ContentTypes
<1>4. Rescue(w, uuid) \in Events /\ (uuid # None => Rescue(w, uuid).id # None)
  BY <1>1, <1>2, <1>3 DEF Rescue, Events
<1>5. plainEvent(w, uuid) \in Events /\ (uuid # None => plainEvent(w, uuid).id # None)
  <2>1. Attribute(w, "correlationid", None) \in Int
    BY <1>2, <1>3 DEF Attribute, Readable
  <2>2. [NoExtensions EXCEPT !["correlationid"] = Attribute(w, "correlationid", None)]
          \in [Names -> Int]
    BY <1>3, <2>1
  <2>3. {"time"} \subseteq Optional
    BY DEF Optional
  <2> QED BY <1>1, <1>2, <1>3, <2>2, <2>3 DEF plainEvent, Events
<1>6. ASSUME NEW x \in w.envelope PROVE x \in Events /\ x.id # None
  BY <1>2 DEF Readable
<1>7. ASSUME NEW x \in Decode(w, uuid) PROVE x \in Events /\ (uuid # None => x.id # None)
  <2>1. CASE w.contentType = Structured
    BY <1>6, <1>7, <2>1 DEF Decode
  <2>2. CASE w.contentType # Structured
    <3> DEFINE type == IF w.contentType = NoType THEN Json ELSE w.contentType
    <3>1. x = FromAttributes(w, DefaultID(w, uuid), type)
      BY <1>7, <2>2 DEF Decode
    <3>2. type \in ContentTypes
      BY <1>2, <1>3
    <3> HIDE DEF type
    <3> QED BY <1>1, <1>2, <3>1, <3>2, FromAttributesEvent
  <2> QED BY <2>1, <2>2
<1>8. ASSUME NEW x \in ParseRequest(w, uuid)
      PROVE  x \in Events /\ (uuid # None => x.id # None)
  <2>1. CASE w.contentType = Structured
    BY <1>6, <1>8, <2>1 DEF ParseRequest
  <2>2. CASE w.contentType # Structured /\ "specversion" \in DOMAIN w.attrs
    <3>1. x = FromAttributes(w, None, w.contentType)
      BY <1>8, <2>2 DEF ParseRequest
    <3>2. "id" \in DOMAIN w.attrs
      BY <1>2, <2>2 DEF Readable
    <3> QED BY <1>2, <1>3, <3>1, <3>2, FromAttributesEvent
  <2>3. CASE w.contentType # Structured /\ "specversion" \notin DOMAIN w.attrs
    BY <1>5, <1>8, <2>3 DEF ParseRequest
  <2> QED BY <2>1, <2>2, <2>3
<1> QED BY <1>4, <1>7, <1>8 DEF Extract, extractCloudEvent

(* Two reads of the same message, the first with no id made up.             *)
Twins(x, y, uuid) ==
  /\ x.ext = y.ext /\ x.type = y.type
  /\ x.id # None => y.id = x.id
  /\ x.id = None => y.id \in {None, uuid}

LEMMA TwinsAcceptable ==
  ASSUME NEW uuid, uuid # Unfit, NEW x, NEW y, Twins(x, y, uuid)
  PROVE  Acceptable(x) <=> Acceptable(y)
BY DEF Twins, Acceptable, None, Unfit

(* Every read of a message finds the same extensions and type, and the id   *)
(* that it has (Extract).                                                   *)
LEMMA ReadsAlike ==
  ASSUME NEW w, Sound(w), NEW uuid \in Int, uuid # Unfit
  PROVE  /\ Extract(w, None) = {} <=> Extract(w, uuid) = {}
         /\ \A x \in Extract(w, None), y \in Extract(w, uuid) : Twins(x, y, uuid)
         /\ Twins(Rescue(w, None), Rescue(w, uuid), uuid)
<1>1. /\ DefaultID(w, None) # None => DefaultID(w, uuid) = DefaultID(w, None)
      /\ DefaultID(w, None) = None => DefaultID(w, uuid) \in {None, uuid}
  BY DEF DefaultID
<1>2. Twins(Rescue(w, None), Rescue(w, uuid), uuid)
  BY <1>1 DEF Rescue, Twins
<1>3. Twins(plainEvent(w, None), plainEvent(w, uuid), uuid)
  BY <1>1 DEF plainEvent, Twins
<1>4. ASSUME NEW type
      PROVE  Twins(FromAttributes(w, DefaultID(w, None), type),
                   FromAttributes(w, DefaultID(w, uuid), type), uuid)
  BY <1>1 DEF FromAttributes, Attribute, Twins
<1>5. \A d, e \in w.envelope : d = e
  BY DEF Sound, Readable
<1>6. \A x : Twins(x, x, uuid)
  BY DEF Twins
<1>7. /\ ParseRequest(w, None) = {} <=> ParseRequest(w, uuid) = {}
      /\ \A x \in ParseRequest(w, None), y \in ParseRequest(w, uuid) : Twins(x, y, uuid)
  <2>1. CASE w.contentType = Structured
    BY <1>5, <1>6, <2>1 DEF ParseRequest
  <2>2. CASE w.contentType # Structured /\ "specversion" \in DOMAIN w.attrs
    <3>1. /\ ParseRequest(w, None) = ParseRequest(w, uuid)
          /\ \A x, y \in ParseRequest(w, None) : x = y
      BY <2>2 DEF ParseRequest
    <3> QED BY <1>6, <3>1
  <2>3. CASE w.contentType # Structured /\ "specversion" \notin DOMAIN w.attrs
    <3>1. /\ ParseRequest(w, None) = IF w.contentType = Json THEN {plainEvent(w, None)} ELSE {}
          /\ ParseRequest(w, uuid) = IF w.contentType = Json THEN {plainEvent(w, uuid)} ELSE {}
      BY <2>3 DEF ParseRequest
    <3> HIDE DEF plainEvent
    <3> QED BY <1>3, <3>1
  <2> QED BY <2>1, <2>2, <2>3
<1>8. CASE w.transport = "http"
  <2>1. /\ Extract(w, None) = {x \in ParseRequest(w, None) : Acceptable(x)}
        /\ Extract(w, uuid) = {x \in ParseRequest(w, uuid) : Acceptable(x)}
    BY <1>8 DEF Extract, extractCloudEvent
  <2>2. \A x \in ParseRequest(w, None), y \in ParseRequest(w, uuid) : Acceptable(x) <=> Acceptable(y)
    BY <1>7, TwinsAcceptable
  <2>3. Extract(w, None) = {} <=> Extract(w, uuid) = {}
    BY <1>7, <2>1, <2>2
  <2> QED BY <1>2, <1>7, <2>1, <2>3
<1>9. CASE w.transport # "http"
  <2> DEFINE type == IF w.contentType = NoType THEN Json ELSE w.contentType
  <2>1. CASE w.contentType = Structured
    <3>1. Extract(w, None) = w.envelope /\ Extract(w, uuid) = w.envelope
      BY <1>9, <2>1 DEF Extract, Decode
    <3> QED BY <1>2, <1>5, <1>6, <3>1
  <2>2. CASE w.contentType # Structured
    <3>1. /\ Extract(w, None) = IF w.flawed THEN {} ELSE {FromAttributes(w, DefaultID(w, None), type)}
          /\ Extract(w, uuid) = IF w.flawed THEN {} ELSE {FromAttributes(w, DefaultID(w, uuid), type)}
      BY <1>9, <2>2 DEF Extract, Decode
    <3> HIDE DEF type
    <3> QED BY <1>2, <1>4, <3>1
  <2> QED BY <2>1, <2>2
<1> QED BY <1>8, <1>9

-----------------------------------------------------------------------------
(* Entering the mux                                                         *)

LEMMA CorrelatedEvent ==
  ASSUME NEW e \in Events
  PROVE  /\ Correlated(e) \in Events /\ Correlated(e).id = e.id /\ Correlated(e).type = e.type
         /\ \A n \in Names \ {"correlationid"} : Correlated(e).ext[n] = e.ext[n]
         /\ e.ext["correlationid"] # None
              => Correlated(e).ext["correlationid"] = e.ext["correlationid"]
         /\ e.ext["correlationid"] = None => Correlated(e).ext["correlationid"] = e.id
<1>1. e.ext \in [Names -> Int] /\ e.id \in Int
  BY DEF Events
<1>2. CASE e.ext["correlationid"] = None /\ e.id # None
  <2> DEFINE ext == [e.ext EXCEPT !["correlationid"] = e.id]
  <2>1. ext \in [Names -> Int] /\ ext["correlationid"] = e.id
        /\ \A n \in Names \ {"correlationid"} : ext[n] = e.ext[n]
    BY <1>1 DEF Names
  <2>2. Correlated(e) = [e EXCEPT !.ext = ext]
    BY <1>2 DEF Correlated
  <2> HIDE DEF ext
  <2> QED BY <1>2, <2>1, <2>2 DEF Events
<1>3. CASE ~(e.ext["correlationid"] = None /\ e.id # None)
  BY <1>3 DEF Correlated
<1> QED BY <1>2, <1>3

(* A message is handled as the event that was read, or as its rescue.       *)
LEMMA ReceivedOf ==
  ASSUME NEW w, NEW native, NEW uuid, NEW r \in Received(w, native, uuid)
  PROVE  \/ /\ r.decoded
            /\ \E x \in Extract(w, uuid) :
                 /\ r.event = Correlated(x)
                 /\ r.trace = inheritOrNewTrace(native, x.ext["traceparent"])
         \/ /\ ~r.decoded /\ Extract(w, uuid) = {}
            /\ r.event = Correlated(Rescue(w, uuid))
            /\ r.trace = inheritOrNewTrace(native, None)
BY DEF Received

(* The correlation the mux fills in is no worse than the id.                *)
LEMMA CorrelatedAcceptable ==
  ASSUME NEW e \in Events
  PROVE  Acceptable(Correlated(e)) <=> Acceptable(e)
<1>1. CASE e.ext["correlationid"] = None
  <2>1. Correlated(e).ext["correlationid"] = e.id
    BY <1>1, CorrelatedEvent
  <2> QED BY <1>1, <2>1, CorrelatedEvent DEF Acceptable, None, Unfit
<1>2. CASE e.ext["correlationid"] # None
  BY <1>2, CorrelatedEvent DEF Acceptable
<1> QED BY <1>1, <1>2

LEMMA TraceType ==
  ASSUME NEW native \in Int, NEW extension \in Int
  PROVE  inheritOrNewTrace(native, extension) \in Int /\ inheritOrNewTrace(native, extension) # None
BY DEF inheritOrNewTrace, NewTrace, None

(* Whatever is handled has an id, a correlation and a trace (handle).       *)
LEMMA ReceivedIdentified ==
  ASSUME NEW w, Sound(w), NEW native \in Int, NEW uuid \in Int \ {None},
         NEW r \in Received(w, native, uuid)
  PROVE  /\ r.event \in Events /\ r.event.id # None /\ r.event.ext["correlationid"] # None
         /\ r.trace \in Int /\ r.trace # None
<1>1. \A x \in Events : x.ext["traceparent"] \in Int
  BY DEF Events, Names
<1>2. PICK x \in Events : /\ x.id # None /\ r.event = Correlated(x)
                          /\ \/ r.trace = inheritOrNewTrace(native, x.ext["traceparent"])
                             \/ r.trace = inheritOrNewTrace(native, None)
  BY ReceivedOf, ReadsEvents
<1>3. r.event \in Events /\ r.event.id # None /\ r.event.ext["correlationid"] # None
  BY <1>2, CorrelatedEvent
<1>4. r.trace \in Int /\ r.trace # None
  <2>1. None \in Int
    BY DEF None
  <2> QED BY <1>1, <1>2, <2>1, TraceType
<1> QED BY <1>3, <1>4

(* All reads of a message route it alike, as far as it says itself who it   *)
(* is (handle).                                                             *)
LEMMA ReceivedAlike ==
  ASSUME NEW w, Sound(w), NEW native, NEW uuid \in Int, uuid # Unfit,
         NEW p \in Received(w, native, None), NEW r \in Received(w, native, uuid)
  PROVE  /\ p.trace = r.trace
         /\ p.event.ext["correlationid"] # None
              => r.event.ext["correlationid"] = p.event.ext["correlationid"]
         /\ Acceptable(p.event) => Acceptable(r.event)
<1>1. None \in Int
  BY DEF None
<1>2. ASSUME NEW x \in Events, NEW y \in Events, Twins(x, y, uuid)
      PROVE  /\ Correlated(x).ext["correlationid"] # None
                  => Correlated(y).ext["correlationid"] = Correlated(x).ext["correlationid"]
             /\ Acceptable(Correlated(x)) => Acceptable(Correlated(y))
  <2>1. Correlated(x).ext["correlationid"] # None
          => Correlated(y).ext["correlationid"] = Correlated(x).ext["correlationid"]
    <3>1. CASE x.ext["correlationid"] = None
      BY <1>2, <3>1, CorrelatedEvent DEF Twins
    <3>2. CASE x.ext["correlationid"] # None
      BY <1>2, <3>2, CorrelatedEvent DEF Twins
    <3> QED BY <3>1, <3>2
  <2>2. Acceptable(x) <=> Acceptable(y)
    BY <1>2, TwinsAcceptable
  <2> QED BY <2>1, <2>2, CorrelatedAcceptable
<1>3. CASE Extract(w, None) = {}
  <2>1. Extract(w, uuid) = {}
    BY <1>3, ReadsAlike
  <2>2. /\ p.event = Correlated(Rescue(w, None)) /\ p.trace = inheritOrNewTrace(native, None)
        /\ r.event = Correlated(Rescue(w, uuid)) /\ r.trace = inheritOrNewTrace(native, None)
    BY <1>3, <2>1, ReceivedOf
  <2>3. Rescue(w, None) \in Events /\ Rescue(w, uuid) \in Events
    BY <1>1, ReadsEvents
  <2> QED BY <1>2, <2>2, <2>3, ReadsAlike
<1>4. CASE Extract(w, None) # {}
  <2>1. Extract(w, uuid) # {}
    BY <1>4, ReadsAlike
  <2>2. PICK x \in Extract(w, None) :
          p.event = Correlated(x) /\ p.trace = inheritOrNewTrace(native, x.ext["traceparent"])
    BY <1>4, ReceivedOf
  <2>3. PICK y \in Extract(w, uuid) :
          r.event = Correlated(y) /\ r.trace = inheritOrNewTrace(native, y.ext["traceparent"])
    BY <2>1, ReceivedOf
  <2>4. x \in Events /\ y \in Events
    BY <1>1, ReadsEvents
  <2>5. Twins(x, y, uuid) /\ x.ext = y.ext
    BY ReadsAlike DEF Twins
  <2> QED BY <1>2, <2>2, <2>3, <2>4, <2>5
<1> QED BY <1>3, <1>4

LEMMA ReaderIdFit ==
  ASSUME NEW n \in Nat
  PROVE  ReaderId(n) \in Int \ {None, Unfit} /\ ResultId(n) \in Int \ {None, Unfit}
BY DEF ReaderId, ResultId, None, Unfit

(* What one read of a message hands to the router, all do: HTTP refuses it  *)
(* always or never.                                                         *)
LEMMA AllReceive ==
  ASSUME NEW w, Sound(w), NEW native, NEW uuid \in Int, uuid # Unfit,
         NEW r \in Received(w, native, uuid)
  PROVE  Received(w, native, None) # {}
<1>1. CASE Extract(w, uuid) = {}
  <2>1. w.transport # "http" /\ Extract(w, None) = {}
    BY <1>1, ReadsAlike DEF Received
  <2> QED BY <2>1 DEF Received
<1>2. CASE Extract(w, uuid) # {}
  <2>1. Extract(w, None) # {}
    BY <1>2, ReadsAlike
  <2> QED BY <2>1 DEF Received
<1> QED BY <1>1, <1>2

LEMMA KnownIsFound ==
  ASSUME NEW values, Known(values) # None
  PROVE  Known(values) \in values
<1>1. values \ {NewTrace} # {}
  BY DEF Known
<1>2. Known(values) = CHOOSE v \in values \ {NewTrace} : TRUE
  BY <1>1 DEF Known
<1> QED BY <1>1, <1>2

-----------------------------------------------------------------------------
(* The invariant                                                            *)

LEMMA UnfitAreEvents ==
  ASSUME NEW e \in UnfitEvents
  PROVE  e \in Events /\ e.id # None
<1> DEFINE plain == [id |-> ResultId(0), type |-> Given, optional |-> {}, ext |-> NoExtensions,
                     contentType |-> Json, data |-> "payload"]
           ext == [NoExtensions EXCEPT !["correlationid"] = Unfit]
<1>1. NoExtensions \in [Names -> Int] /\ Unfit \in Int /\ ResultId(0) \in Int
  BY DEF NoExtensions, None, Unfit, ResultId
<1>2. ext \in [Names -> Int]
  BY <1>1 DEF Names
<1>3. Json \in ContentTypes /\ "payload" \in Bodies
  BY DEF ContentTypes, Bodies
<1>4. ResultId(0) # None /\ Unfit # None
  BY DEF ResultId, None, Unfit
<1>5. e \in {[plain EXCEPT !.id = Unfit], [plain EXCEPT !.type = Unfit], [plain EXCEPT !.ext = ext]}
  BY DEF UnfitEvents
<1> HIDE DEF ext
<1> QED BY <1>1, <1>2, <1>3, <1>4, <1>5 DEF Events

LEMMA FirstReadable ==
  ASSUME NEW transport, NEW content \in FirstContents(transport)
  PROVE  Readable(content)
<1> DEFINE Of(e) == IF e.id # None THEN Binary(e)
                    ELSE [Binary(e) EXCEPT !.contentType = e.contentType,
                                           !.attrs = [a \in DOMAIN @ \ Required |-> @[a]]]
           events == {e \in FirstEvents : Sensible(e.ext)}
           Garbage(c) == [c EXCEPT !.contentType = Structured, !.body = "garbage"]
<1>1. events \subseteq Events
  <2>1. {None, Client, Producer, Extension} \subseteq Int /\ ResultId(0) \in Int /\ None \in Int
    BY DEF None, Client, Producer, Extension, ResultId
  <2>2. {"subject", "time"} \in SUBSET Optional /\ {} \in SUBSET Optional
    BY DEF Optional
  <2>3. {NoType, Json} \subseteq ContentTypes /\ {"payload"} \subseteq Bodies
    BY DEF ContentTypes, Bodies
  <2>4. Given \in {Given, Unfit}
    OBVIOUS
  <2>5. [Names -> {None, Client, Producer, Extension}] \subseteq [Names -> Int]
    BY <2>1
  <2> QED BY <2>1, <2>2, <2>3, <2>5, <2>4 DEF FirstEvents, Events
<1>2. ASSUME NEW e \in events
      PROVE  /\ Readable(Of(e)) /\ DOMAIN Of(e) = DOMAIN Binary(e)
             /\ Readable(Garbage(Of(e)))
             /\ Readable([Of(e) EXCEPT !.flawed = TRUE])
  <2>1. PICK type, attrs, body :
          /\ Of(e) = [contentType |-> type, attrs |-> attrs, flawed |-> FALSE,
                      body |-> body, envelope |-> {}]
          /\ Readable(Of(e))
    <3>1. CASE e.id # None
      <4>1. Of(e) = Binary(e)
        BY <3>1
      <4> QED BY <1>1, <3>1, <4>1, MarshalReadable DEF Binary
    <3>2. CASE e.id = None
      <4> DEFINE attrs == [a \in DOMAIN Encode(e) \ Required |-> Encode(e)[a]]
      <4>1. Of(e) = [contentType |-> e.contentType, attrs |-> attrs, flawed |-> FALSE,
                     body |-> e.data, envelope |-> {}]
        BY <3>2 DEF Binary
      <4>2. \A a \in DOMAIN attrs : attrs[a] \in Int
        BY <1>1, Encodes
      <4>3. "id" \notin DOMAIN attrs /\ "specversion" \notin DOMAIN attrs /\ "type" \notin DOMAIN attrs
        BY DEF Required
      <4>4. e.contentType \in ContentTypes /\ e.data \in Bodies
        BY <1>1 DEF Events
      <4> HIDE DEF attrs, Of
      <4>5. Readable(Of(e))
        BY <4>1, <4>2, <4>3, <4>4 DEF Readable
      <4> QED BY <4>1, <4>5
    <3> QED BY <3>1, <3>2
  <2> HIDE DEF Of
  <2>2. Readable(Garbage(Of(e)))
    BY <2>1 DEF Readable, ContentTypes, Bodies
  <2>3. Readable([Of(e) EXCEPT !.flawed = TRUE])
    BY <2>1 DEF Readable
  <2> QED BY <2>1, <2>2, <2>3 DEF Binary
<1>3. ASSUME NEW e \in events, e.id # None PROVE Readable(EncodeStructured(e))
  BY <1>1, <1>3, MarshalReadable
<1>4. ASSUME NEW e \in UnfitEvents PROVE Readable(Binary(e)) /\ Readable(EncodeStructured(e))
  <2>1. e \in Events /\ e.id # None
    BY <1>4, UnfitAreEvents
  <2> QED BY <2>1, MarshalReadable
<1>5. \/ \E e \in events : content = Of(e)
      \/ \E e \in events : content = [Of(e) EXCEPT !.flawed = TRUE]
      \/ \E e \in events : e.id # None /\ content = EncodeStructured(e)
      \/ \E e \in events : content = Garbage(Of(e))
      \/ \E e \in UnfitEvents : content \in {Binary(e), EncodeStructured(e)}
  BY DEF FirstContents
<1> HIDE DEF Of, events, Garbage
<1> QED BY <1>2, <1>3, <1>5, <1>4

LEMMA SoundMessage ==
  ASSUME NEW content, Readable(content), NEW transport \in Transports, NEW native \in Int,
         NEW brokerId \in Int
  PROVE  Sound(Message(transport, content, native, brokerId))
BY DEF Sound, Readable, Message

LEMMA BrokerIdType ==
  ASSUME NEW transport, NEW id \in Int, NEW n \in Nat
  PROVE  BrokerIds(transport, id, n) \subseteq Int
BY DEF BrokerIds, BrokerId, None, Unfit

LEMMA InitChain == Init => ChainInv
<1> SUFFICES ASSUME Init PROVE ChainInv
  OBVIOUS
<1>1. PICK transport \in Hops, native \in {None, Carrier} :
        \E content \in FirstContents(transport), brokerId \in BrokerIds(transport, BrokerId(0), 0) :
          LET wire == Message(transport, content, native, brokerId)
              reads == Received(wire, native, None)
          IN  messages =
                {[wire |-> wire, kind |-> "entry", nth |-> 1, handled |-> None,
                  published |-> NoEvent,
                  root |-> Known({r.event.ext["correlationid"] : r \in reads}),
                  trail |-> Known({r.trace : r \in reads}),
                  forged |-> FALSE, lost |-> FALSE,
                  fit |-> \A r \in reads : Acceptable(r.event)]}
  BY DEF Init
<1>2. PICK content \in FirstContents(transport), brokerId \in BrokerIds(transport, BrokerId(0), 0) :
          LET wire == Message(transport, content, native, brokerId)
              reads == Received(wire, native, None)
          IN  messages =
                {[wire |-> wire, kind |-> "entry", nth |-> 1, handled |-> None,
                  published |-> NoEvent,
                  root |-> Known({r.event.ext["correlationid"] : r \in reads}),
                  trail |-> Known({r.trace : r \in reads}),
                  forged |-> FALSE, lost |-> FALSE,
                  fit |-> \A r \in reads : Acceptable(r.event)]}
  BY <1>1
<1> DEFINE wire == Message(transport, content, native, brokerId)
           reads == Received(wire, native, None)
           roots == {r.event.ext["correlationid"] : r \in reads}
           trails == {r.trace : r \in reads}
           fit == \A r \in reads : Acceptable(r.event)
           m == [wire |-> wire, kind |-> "entry", nth |-> 1, handled |-> None,
                 published |-> NoEvent, root |-> Known(roots), trail |-> Known(trails),
                 forged |-> FALSE, lost |-> FALSE, fit |-> fit]
<1>3. messages = {m}
  BY <1>2
<1>4. native \in Int /\ brokerId \in Int /\ transport \in Transports
  BY BrokerIdType, ChainAssumption DEF ChainAssumption, None, Carrier, BrokerId
<1>5. Sound(wire)
  BY <1>4, FirstReadable, SoundMessage
<1>6. wire.native = native
  BY DEF Message
<1>7. Begins(m)
  <2>1. ASSUME NEW n \in 0 .. MaxMessages, NEW r \in Received(wire, native, ReaderId(n))
        PROVE  /\ Known(roots) # None => r.event.ext["correlationid"] = Known(roots)
               /\ Known(trails) # None => r.trace = Known(trails)
               /\ fit => Acceptable(r.event)
    <3>1. ReaderId(n) \in Int /\ ReaderId(n) # Unfit
      BY ReaderIdFit
    <3>2. \A p \in reads : /\ p.trace = r.trace
                           /\ p.event.ext["correlationid"] # None
                                => r.event.ext["correlationid"] = p.event.ext["correlationid"]
                           /\ Acceptable(p.event) => Acceptable(r.event)
      BY <1>5, <2>1, <3>1, ReceivedAlike
    <3>3. reads # {}
      BY <1>5, <2>1, <3>1, AllReceive
    <3>4. Known(roots) # None => \E p \in reads : Known(roots) = p.event.ext["correlationid"]
      BY KnownIsFound
    <3>5. Known(trails) # None => \E p \in reads : Known(trails) = p.trace
      BY KnownIsFound
    <3> QED BY <3>2, <3>4, <3>5, <3>3
  <2>2. /\ m.wire = wire /\ m.root = Known(roots) /\ m.trail = Known(trails)
        /\ m.lost = FALSE /\ m.fit = fit
    OBVIOUS
  <2> HIDE DEF m, wire, reads, roots, trails, fit
  <2> QED BY <1>6, <2>1, <2>2 DEF Begins
<1>8. m.kind = "entry" /\ m.wire = wire /\ m.fit \in BOOLEAN
  OBVIOUS
<1>9. IsFiniteSet(messages)
  BY <1>3, FS_Singleton
<1> HIDE DEF m, wire
<1> QED BY <1>3, <1>5, <1>7, <1>8, <1>9 DEF ChainInv, Derived

(* What the next message of the chain has to be told, and is (Publish).     *)
Root(m, r) == IF m.root # None THEN m.root ELSE r.event.ext["correlationid"]
Trail(m, r) == IF m.trail # None THEN m.trail ELSE r.trace
Lost(m, r) == m.lost \/ (m.kind # "entry" /\ ~r.decoded)

Natives(m) == IF m.kind = "entry" THEN {m.wire.native} ELSE {m.wire.native, None}

(* What is handled belongs to the chain of the message that was read.       *)
LEMMA HandledInChain ==
  ASSUME ChainInv, NEW m \in messages, NEW n \in 0 .. MaxMessages, NEW native \in Natives(m),
         NEW r \in Received(m.wire, native, ReaderId(n)), ~Lost(m, r)
  PROVE  /\ r.event.ext["correlationid"] = Root(m, r)
         /\ r.trace = Trail(m, r)
<1>1. CASE m.kind = "entry"
  <2>1. Begins(m) /\ native = m.wire.native
    BY <1>1 DEF ChainInv, Derived, Natives
  <2> QED BY <2>1 DEF Begins, Root, Trail
<1>2. CASE m.kind # "entry"
  <2>1. Encoded(m) /\ Inherited(m) /\ ~m.lost /\ r.decoded
    BY <1>2 DEF ChainInv, Derived, Lost
  <2>2. PICK x \in Extract(m.wire, ReaderId(n)) :
          r.event = Correlated(x) /\ r.trace = inheritOrNewTrace(native, x.ext["traceparent"])
    BY <2>1, ReceivedOf
  <2>3. x \in Events /\ x.ext = m.published.ext
    BY <2>1, RoundTrip DEF Encoded, Same
  <2>4. /\ x.ext["correlationid"] = m.root /\ m.root # None
        /\ x.ext["traceparent"] = m.trail /\ m.trail # None /\ m.wire.native = m.trail
    BY <2>1, <2>3 DEF Inherited
  <2>5. r.event.ext["correlationid"] = m.root
    BY <2>2, <2>3, <2>4, CorrelatedEvent
  <2>6. r.trace = m.trail
    BY <1>2, <2>2, <2>4 DEF Natives, inheritOrNewTrace
  <2> QED BY <2>4, <2>5, <2>6 DEF Root, Trail
<1> QED BY <1>1, <1>2

(* What is handled of a chain that began fit for HTTP is fit for it, also   *)
(* when it did not decode (Rescue, Correlated).                             *)
LEMMA HandledFit ==
  ASSUME ChainInv, NEW m \in messages, NEW n \in 0 .. MaxMessages, NEW native \in Natives(m),
         NEW r \in Received(m.wire, native, ReaderId(n)), m.fit
  PROVE  Acceptable(r.event)
<1>1. CASE m.kind = "entry"
  <2>1. Begins(m) /\ native = m.wire.native
    BY <1>1 DEF ChainInv, Derived, Natives
  <2> QED BY <2>1 DEF Begins
<1>2. CASE m.kind # "entry"
  <2>1. Encoded(m) /\ Acceptable(m.published) /\ m.wire.brokerId # Unfit /\ Sound(m.wire)
    BY <1>2 DEF ChainInv, Derived, Inherited
  <2>2. ReaderId(n) \in Int \ {None, Unfit}
    BY ReaderIdFit
  <2>3. CASE \E x \in Extract(m.wire, ReaderId(n)) : r.event = Correlated(x)
    <3>1. PICK x \in Extract(m.wire, ReaderId(n)) : r.event = Correlated(x)
      BY <2>3
    <3>2. x \in Events /\ Same(x, m.published)
      BY <2>1, RoundTrip DEF Encoded
    <3>3. Acceptable(x)
      BY <2>1, <3>2 DEF Same, Acceptable
    <3> QED BY <3>1, <3>2, <3>3, CorrelatedAcceptable
  <2>4. CASE r.event = Correlated(Rescue(m.wire, ReaderId(n)))
    <3>1. Rescue(m.wire, ReaderId(n)) \in Events
      BY <2>1, <2>2, ReadsEvents
    <3>2. Acceptable(Rescue(m.wire, ReaderId(n)))
      BY <2>1, <2>2 DEF Rescue, DefaultID, Acceptable, NoExtensions, Names, Given, None, Unfit
    <3> QED BY <2>4, <3>1, <3>2, CorrelatedAcceptable
  <2> QED BY <2>3, <2>4, ReceivedOf
<1> QED BY <1>1, <1>2

LEMMA PublishKeeps ==
  ASSUME ChainInv, NEW m \in messages, NEW r, NEW kind \in {"result", "copy"}, NEW e \in Events,
         NEW transport \in Hops, NEW forged, Publish(m, r, kind, e, transport, forged),
         r.trace \in Int, r.trace # None, e.id # None, e.ext["correlationid"] # None,
         ~Lost(m, r) => e.ext["correlationid"] = Root(m, r) /\ r.trace = Trail(m, r),
         kind = "result" => e.ext["causationid"] = r.event.id,
         kind = "result" /\ ~forged => e.ext["deadletterreason"] = None,
         m.fit => Acceptable(e)
  PROVE  ChainInv'
<1>1. PICK traced : traced = [e EXCEPT !.ext["traceparent"] = r.trace]
  OBVIOUS
<1>2. Count \in Nat /\ Count # 0 /\ m.fit \in BOOLEAN
  BY FS_CardinalityType, FS_EmptySet DEF ChainInv, Count
<1>3. PICK brokerId, wire, new :
        /\ brokerId \in BrokerIds(transport, e.id, Count)
        /\ wire = Message(transport, Marshal(transport, traced), r.trace, brokerId)
        /\ new = [wire |-> wire, kind |-> kind, nth |-> Count + 1, handled |-> r.event.id,
                  published |-> traced, root |-> Root(m, r), trail |-> Trail(m, r),
                  forged |-> forged, lost |-> Lost(m, r), fit |-> m.fit]
        /\ messages' = messages \cup {new}
  <2> DEFINE Wire(brokerId) == Message(transport, Marshal(transport, traced), r.trace, brokerId)
             New(brokerId) ==
               [wire |-> Wire(brokerId), kind |-> kind, nth |-> Count + 1,
                handled |-> r.event.id, published |-> traced, root |-> Root(m, r),
                trail |-> Trail(m, r), forged |-> forged, lost |-> Lost(m, r), fit |-> m.fit]
  <2>1. \E brokerId \in BrokerIds(transport, e.id, Count) :
          messages' = messages \cup {New(brokerId)}
    BY <1>1, Zenon DEF Publish, Root, Trail, Lost
  <2>2. \A brokerId : New(brokerId) =
           [wire |-> Wire(brokerId), kind |-> kind, nth |-> Count + 1,
            handled |-> r.event.id, published |-> traced, root |-> Root(m, r),
            trail |-> Trail(m, r), forged |-> forged, lost |-> Lost(m, r), fit |-> m.fit]
    OBVIOUS
  <2> HIDE DEF New
  <2> QED BY <2>1, <2>2
<1>4. /\ traced \in Events /\ traced.id = e.id /\ traced.type = e.type /\ traced.ext["traceparent"] = r.trace
      /\ \A n \in Names \ {"traceparent"} : traced.ext[n] = e.ext[n]
  <2> DEFINE ext == [e.ext EXCEPT !["traceparent"] = r.trace]
  <2>1. e.ext \in [Names -> Int]
    BY DEF Events
  <2>2. ext \in [Names -> Int] /\ ext["traceparent"] = r.trace
        /\ \A n \in Names \ {"traceparent"} : ext[n] = e.ext[n]
    BY <2>1 DEF Names
  <2>3. traced = [e EXCEPT !.ext = ext]
    BY <1>1
  <2> HIDE DEF ext
  <2> QED BY <2>2, <2>3 DEF Events
<1>5. Sound(wire)
  <2>1. brokerId \in Int
    <3>1. e.id \in Int
      BY DEF Events
    <3> QED BY <1>2, <1>3, <3>1, BrokerIdType
  <2>2. Readable(Marshal(transport, traced))
    BY <1>4, MarshalReadable
  <2> QED BY <1>3, <2>1, <2>2, SoundMessage, ChainAssumption DEF ChainAssumption
<1>6. Encoded(new)
  <2>1. new.wire = wire /\ new.published = traced
    BY <1>3
  <2>2. wire.transport = transport /\ wire.native = r.trace /\ wire.brokerId = brokerId
    BY <1>3 DEF Message
  <2> QED BY <1>3, <1>4, <2>1, <2>2 DEF Encoded
<1>7. Inherited(new)
  <2>1. /\ new.wire.native = r.trace /\ new.published = traced /\ new.lost = Lost(m, r)
        /\ new.trail = Trail(m, r) /\ new.root = Root(m, r) /\ new.kind = kind
        /\ new.handled = r.event.id /\ new.forged = forged
        /\ new.fit = m.fit /\ new.wire.brokerId = brokerId
    BY <1>3 DEF Message
  <2>2. /\ traced.ext["correlationid"] = e.ext["correlationid"]
        /\ traced.ext["causationid"] = e.ext["causationid"]
        /\ traced.ext["deadletterreason"] = e.ext["deadletterreason"]
    BY <1>4 DEF Names
  <2>3. m.fit => Acceptable(traced)
    BY <1>4, <2>2 DEF Acceptable
  <2>4. m.fit => brokerId # Unfit
    BY <1>2, <1>3 DEF BrokerIds, BrokerId, Acceptable, None, Unfit
  <2> QED BY <1>4, <2>1, <2>2, <2>3, <2>4 DEF Inherited
<1>8. new.kind = kind /\ new.wire = wire /\ new.fit = m.fit
  BY <1>3
<1>9. IsFiniteSet(messages')
  BY <1>3, FS_AddElement DEF ChainInv
<1>10. \A x \in messages' : Sound(x.wire) /\ x.kind \in {"entry", "result", "copy"}
  BY <1>3, <1>5, <1>8 DEF ChainInv
<1>11. \A x \in messages' : x.kind # "entry" => Encoded(x) /\ Inherited(x)
  BY <1>3, <1>6, <1>7 DEF ChainInv, Derived
<1>12. \A x \in messages' : x.kind = "entry" => Begins(x)
  BY <1>3, <1>8 DEF ChainInv, Derived
<1>13. \A x \in messages' : x.fit \in BOOLEAN
  BY <1>2, <1>3, <1>8 DEF ChainInv
<1> QED BY <1>9, <1>10, <1>11, <1>12, <1>13 DEF ChainInv, Derived

(* A result carries the correlation over, and never a mark (publishResult). *)
LEMMA ResultExtensionsOf ==
  ASSUME NEW e \in Events, e.id # None, e.ext["correlationid"] # None, NEW meta, NEW id \in Int
  PROVE  LET ext == ResultExtensions(e, meta, id)
         IN  /\ ext \in [Names -> Int]
             /\ ext["correlationid"] = e.ext["correlationid"]
             /\ ext["causationid"] = e.id
             /\ ~(\E k \in meta : ~k.lower /\ k.name = "deadletterreason")
                  => ext["deadletterreason"] = None
<1>1. e.ext \in [Names -> Int] /\ e.id \in Int /\ None \in Int
  BY DEF Events, None
<1>2. ResultExtensions(e, meta, id) \in [Names -> Int]
  BY <1>1 DEF ResultExtensions
<1>3. {"correlationid", "causationid", "deadletterreason"} \subseteq Names
  BY DEF Names
<1>4. Carries(e.ext, meta, "correlationid")
  BY DEF Carries, Kept, reservedExtensions
<1>5. ~Carries(e.ext, meta, "deadletterreason") /\ ~Carries(e.ext, meta, "causationid")
  BY DEF Carries
<1>6. ASSUME ~(\E k \in meta : ~k.lower /\ k.name = "deadletterreason")
      PROVE  ~(\E k \in Kept(meta) : k.name = "deadletterreason")
  BY <1>6 DEF Kept, reservedExtensions
<1>7. ResultExtensions(e, meta, id)["correlationid"] = e.ext["correlationid"]
  BY <1>3, <1>4 DEF ResultExtensions
<1>8. ResultExtensions(e, meta, id)["causationid"] = e.id
  BY <1>3, <1>5 DEF ResultExtensions
<1>9. ASSUME ~(\E k \in meta : ~k.lower /\ k.name = "deadletterreason")
      PROVE  ResultExtensions(e, meta, id)["deadletterreason"] = None
  BY <1>3, <1>5, <1>6, <1>9 DEF ResultExtensions
<1> QED BY <1>2, <1>7, <1>8, <1>9

LEMMA ResultKeeps ==
  ASSUME ChainInv, NEW m \in messages, NEW n \in 0 .. MaxMessages, n = Count,
         NEW native \in Natives(m), NEW r \in Received(m.wire, native, ReaderId(n)),
         NEW meta, NEW transport \in Hops, publishResult(m, r, meta, transport)
  PROVE  ChainInv'
<1>1. PICK id, forged, e :
        /\ id = ResultId(n) /\ forged = (\E k \in meta : ~k.lower /\ k.name = "deadletterreason")
        /\ e = [id |-> id, type |-> r.event.type, optional |-> {"time"},
                ext |-> ResultExtensions(r.event, meta, id),
                contentType |-> Json, data |-> "payload"]
  OBVIOUS
<1>2. Publish(m, r, "result", e, transport, forged)
  BY <1>1 DEF publishResult
<1>3. id \in Int /\ id # None /\ id # Unfit
  BY <1>1, ReaderIdFit
<1>4. /\ r.event \in Events /\ r.event.id # None /\ r.event.ext["correlationid"] # None
      /\ r.trace \in Int /\ r.trace # None
  <2>1. Sound(m.wire) /\ native \in Int
    BY DEF ChainInv, Sound, Natives, None
  <2>2. ReaderId(n) \in Int \ {None}
    BY ReaderIdFit
  <2> QED BY <2>1, <2>2, ReceivedIdentified
<1>5. /\ ResultExtensions(r.event, meta, id) \in [Names -> Int]
      /\ ResultExtensions(r.event, meta, id)["correlationid"] = r.event.ext["correlationid"]
      /\ ResultExtensions(r.event, meta, id)["causationid"] = r.event.id
      /\ ~forged => ResultExtensions(r.event, meta, id)["deadletterreason"] = None
  BY <1>1, <1>3, <1>4, ResultExtensionsOf
<1>6. /\ e \in Events /\ e.id = id /\ e.type = r.event.type
      /\ e.ext = ResultExtensions(r.event, meta, id)
  <2>1. r.event.type \in {Given, Unfit}
    BY <1>4 DEF Events
  <2> QED BY <1>1, <1>3, <1>5, <2>1 DEF Events, ContentTypes, Bodies, Optional
<1>7. ~Lost(m, r) => r.event.ext["correlationid"] = Root(m, r) /\ r.trace = Trail(m, r)
  BY HandledInChain
<1>8. m.fit => Acceptable(e)
  BY <1>3, <1>5, <1>6, HandledFit DEF Acceptable
<1> QED BY <1>2, <1>3, <1>4, <1>5, <1>6, <1>7, <1>8, PublishKeeps

LEMMA DeadLetterKeeps ==
  ASSUME ChainInv, NEW m \in messages, NEW n \in 0 .. MaxMessages, n = Count,
         NEW native \in Natives(m), NEW r \in Received(m.wire, native, ReaderId(n)),
         NEW transport \in Hops, publishDeadLetter(m, r, transport)
  PROVE  ChainInv'
<1>1. PICK e : e = deadLetterEvent(r.event)
  OBVIOUS
<1>2. Publish(m, r, "copy", e, transport, FALSE)
  BY <1>1 DEF publishDeadLetter
<1>3. /\ r.event \in Events /\ r.event.id # None /\ r.event.ext["correlationid"] # None
      /\ r.trace \in Int /\ r.trace # None
  <2>1. Sound(m.wire) /\ native \in Int
    BY DEF ChainInv, Sound, Natives, None
  <2>2. ReaderId(n) \in Int \ {None}
    BY ReaderIdFit
  <2> QED BY <2>1, <2>2, ReceivedIdentified
<1>4. e \in Events /\ e.id = r.event.id /\ e.type = r.event.type
      /\ e.ext["correlationid"] = r.event.ext["correlationid"]
  <2>1. PICK ext : ext = [r.event.ext EXCEPT !["deadletterreason"] = Failed,
                                             !["deadlettererror"] = Failed]
    OBVIOUS
  <2>2. r.event.ext \in [Names -> Int]
    BY <1>3 DEF Events
  <2>3. ext \in [Names -> Int] /\ ext["correlationid"] = r.event.ext["correlationid"]
    BY <2>1, <2>2 DEF Names, Failed
  <2>4. e = [r.event EXCEPT !.ext = ext]
    BY <1>1, <1>3, <2>1 DEF deadLetterEvent, Events
  <2> QED BY <1>3, <2>3, <2>4 DEF Events
<1>5. ~Lost(m, r) => r.event.ext["correlationid"] = Root(m, r) /\ r.trace = Trail(m, r)
  BY HandledInChain
<1>6. m.fit => Acceptable(e)
  BY <1>4, HandledFit DEF Acceptable
<1> QED BY <1>2, <1>3, <1>4, <1>5, <1>6, PublishKeeps

LEMMA NextChain == ChainInv /\ [Next]_vars => ChainInv'
<1> SUFFICES ASSUME ChainInv, [Next]_vars PROVE ChainInv'
  OBVIOUS
<1>1. CASE UNCHANGED vars
  <2>1. messages' = messages
    BY <1>1 DEF vars
  <2> QED BY <2>1 DEF ChainInv, Derived
<1>2. CASE Next
  <2>1. PICK m \in messages, transport \in Hops : Handle(m, transport)
    BY <1>2 DEF Next
  <2>2. PICK n : n = Count
    OBVIOUS
  <2>3. n \in 0 .. MaxMessages
    <3>1. n \in Nat /\ MaxMessages \in Nat
      BY <2>2, FS_CardinalityType, ChainAssumption DEF ChainInv, Count, ChainAssumption
    <3>2. n < MaxMessages
      BY <2>1, <2>2 DEF Handle
    <3> QED BY <3>1, <3>2
  <2>4. PICK native \in Natives(m) : \E r \in Received(m.wire, native, ReaderId(n)) :
          \/ \E meta \in {s \in SUBSET Keys : Cardinality(s) <= MaxKeys} :
               publishResult(m, r, meta, transport)
          \/ publishDeadLetter(m, r, transport)
    BY <2>1, <2>2 DEF Handle, Natives
  <2>5. PICK r \in Received(m.wire, native, ReaderId(n)) :
          \/ \E meta \in {s \in SUBSET Keys : Cardinality(s) <= MaxKeys} :
               publishResult(m, r, meta, transport)
          \/ publishDeadLetter(m, r, transport)
    BY <2>4
  <2>6. CASE \E meta \in {s \in SUBSET Keys : Cardinality(s) <= MaxKeys} :
               publishResult(m, r, meta, transport)
    BY <2>2, <2>3, <2>6, ResultKeeps
  <2>7. CASE publishDeadLetter(m, r, transport)
    BY <2>2, <2>3, <2>7, DeadLetterKeeps
  <2> QED BY <2>5, <2>6, <2>7
<1> QED BY <1>1, <1>2

LEMMA ChainInvariant == Spec => []ChainInv
<1>1. Init => ChainInv
  BY InitChain
<1>2. ChainInv /\ [Next]_vars => ChainInv'
  BY NextChain
<1> QED BY <1>1, <1>2, PTL DEF Spec

-----------------------------------------------------------------------------
(* The theorems                                                             *)

(* What a reader gets of a message of the mux.                              *)
LEMMA DerivedRead ==
  ASSUME ChainInv, NEW m \in Derived
  PROVE  /\ Encoded(m) /\ Inherited(m)
         /\ \A e \in Extract(m.wire, None) : e \in Events /\ Same(e, m.published)
         /\ m.published.contentType # Structured /\ (m.fit \/ m.wire.transport # "http")
              => Extract(m.wire, None) # {}
<1>1. Encoded(m) /\ Inherited(m)
  BY DEF ChainInv
<1> QED BY <1>1, RoundTrip DEF Encoded, Inherited

(* Whoever reads a message reads the event that was published, in whichever *)
(* mode its attributes made it go, and everybody can, HTTP readers unless   *)
(* the chain began with values they refuse (Encode, Decode,                 *)
(* DefaultMarshaler, extractCloudEvent).                                    *)
THEOREM PublishedIsRead == Spec => []ReadsAsPublished
<1>1. ASSUME ChainInv, NEW m \in Derived, m.published.contentType # Structured
      PROVE  LET read == {[e EXCEPT !.contentType = ContentType(e)] : e \in Extract(m.wire, None)}
             IN  /\ read \subseteq {[m.published EXCEPT !.contentType = ContentType(m.published)]}
                 /\ m.fit \/ m.wire.transport # "http" => read # {}
  <2>1. ASSUME NEW e \in Extract(m.wire, None)
        PROVE  [e EXCEPT !.contentType = ContentType(e)]
                 = [m.published EXCEPT !.contentType = ContentType(m.published)]
    <3>1. e \in Events /\ Same(e, m.published) /\ m.published \in Events
      BY <1>1, DerivedRead DEF Encoded
    <3> QED BY <3>1 DEF Same, Events
  <2>2. m.fit \/ m.wire.transport # "http" => Extract(m.wire, None) # {}
    BY <1>1, DerivedRead
  <2> QED BY <2>1, <2>2
<1>2. ChainInv => ReadsAsPublished
  BY <1>1 DEF ReadsAsPublished
<1> QED BY <1>2, ChainInvariant, PTL

(* No event is turned away by SNS or SQS for its attributes, however many   *)
(* the handlers of a chain add: what does not fit the budget goes whole, in *)
(* the body (DefaultMarshaler, Publisher.Publish).                          *)
THEOREM MessagesFit == Spec => []AttributesFit
<1>1. ASSUME ChainInv, NEW m \in Derived, m.wire.transport = "sns"
      PROVE  AttributeCount(m.wire) <= MaxMessageAttributes
  <2>1. m.published \in Events /\ m.wire.attrs = DefaultMarshaler(m.published).attrs
    <3>1. m.published \in Events
          /\ m.wire = Message("sns", DefaultMarshaler(m.published), m.wire.native, m.wire.brokerId)
      BY <1>1, DerivedRead DEF Encoded, Marshal
    <3>2. Message("sns", DefaultMarshaler(m.published), m.wire.native, m.wire.brokerId).attrs
            = DefaultMarshaler(m.published).attrs
      BY DEF Message
    <3> QED BY <3>1, <3>2
  <2>2. CASE Cardinality(DOMAIN Encode(m.published)) + 1 > binaryAttributeBudget
    <3>1. DOMAIN m.wire.attrs = {"id", "type", "source"}
      BY <2>1, <2>2 DEF DefaultMarshaler, EncodeStructured
    <3>2. Cardinality({"id", "type", "source"}) = 3
      <4>1. IsFiniteSet({"id"}) /\ Cardinality({"id"}) = 1
        BY FS_Singleton
      <4>2. IsFiniteSet({"id"} \cup {"type"}) /\ Cardinality({"id"} \cup {"type"}) = 2
        BY <4>1, FS_AddElement
      <4>3. Cardinality(({"id"} \cup {"type"}) \cup {"source"}) = 3
        BY <4>2, FS_AddElement
      <4>4. {"id", "type", "source"} = ({"id"} \cup {"type"}) \cup {"source"}
        OBVIOUS
      <4> QED BY <4>3, <4>4
    <3> QED BY <3>1, <3>2 DEF AttributeCount, MaxMessageAttributes
  <2>3. CASE ~(Cardinality(DOMAIN Encode(m.published)) + 1 > binaryAttributeBudget)
    <3>1. m.wire.attrs = Encode(m.published)
      BY <2>1, <2>3 DEF DefaultMarshaler, Binary
    <3>2. Cardinality(DOMAIN Encode(m.published)) \in Nat
      BY <2>1, AttributesFinite, Encodes
    <3> QED BY <2>3, <3>1, <3>2 DEF AttributeCount, MaxMessageAttributes, binaryAttributeBudget
  <2> QED BY <2>2, <2>3
<1>2. ChainInv => AttributesFit
  BY <1>1 DEF AttributesFit
<1> QED BY <1>2, ChainInvariant, PTL

(* One correlation for the whole chain: the client's, or the id of the      *)
(* first event (handle, publishResult).                                     *)
THEOREM CorrelationSurvives == Spec => []CorrelationKept
<1>1. ChainInv => CorrelationKept
  BY DerivedRead DEF CorrelationKept, Inherited, Same
<1> QED BY <1>1, ChainInvariant, PTL

(* A result says it was caused by the event handled (publishResult).        *)
THEOREM CausedByParent == Spec => []CausationIsParent
<1>1. ChainInv => CausationIsParent
  BY DerivedRead DEF CausationIsParent, Inherited, Same
<1> QED BY <1>1, ChainInvariant, PTL

(* A result is never marked as failed because the event it derives from was *)
(* (publishResult, deadLetterEvent).                                        *)
THEOREM ResultsUnmarked == Spec => []ResultNotMarked
<1>1. ChainInv => ResultNotMarked
  BY DerivedRead DEF ResultNotMarked, Inherited, Same
<1> QED BY <1>1, ChainInvariant, PTL

(* The trace of a chain survives transports that strip their own carrier    *)
(* and metadata that claims to be a trace (InjectTraceFromContext,          *)
(* inheritOrNewTrace).                                                      *)
THEOREM TraceSurvives == Spec => []TraceKept
<1>1. ChainInv => TraceKept
  BY DerivedRead DEF TraceKept, Inherited, Same
<1> QED BY <1>1, ChainInvariant, PTL

=============================================================================
