---------------------------- MODULE ZoomTranscript ----------------------------
(***************************************************************************)
(* From a Zoom meeting to the timeline of one session: the join link that  *)
(* names the meeting (zoom/join_link.py), the webhook that offers a stream *)
(* (zoom/protocol.py), the client that receives it over two connections    *)
(* (zoom/rtms_client.py), and the ingestion of what it hears beside the    *)
(* batches that others upload (TranscriptBatches). Which stream a session  *)
(* has, and how it is stopped, is the subject of ZoomStreams.              *)
(*                                                                         *)
(* The client runs on the event loop and calls the transcript service      *)
(* there, so while it ingests nothing else of the client moves; uploads    *)
(* are served by other threads. Frames that change nothing are left out:   *)
(* keep-alives, which are answered, undecodable and unknown messages.      *)
(***************************************************************************)
EXTENDS TranscriptBatches, FiniteSets

CONSTANTS
    Pump,           \* the request that stands for the stream's ingestion
    OwnerInputs,    \* what the owner may give: a typed meeting id and a link
    Offers,         \* signed rtms_started webhooks that may be delivered
    Messages,       \* transcript messages that Zoom may send (bound)
    ClockOrigin,    \* lecture time zero, on Zoom's clock
    Tolerance,      \* zoom_webhook_tolerance_seconds
    None

VARIABLES
    meeting,   \* zoom_meeting_id of the session, or None
    phase,     \* of the client: "off", "streaming" or the handshake it awaits
    lost       \* connections that are closed, silent or told to terminate

client == <<meeting, phase, lost>>
zoomVars == <<vars, client>>

Connections == {"signaling", "media"}
-----------------------------------------------------------------------------
(* parse_zoom_join_url: a link to a meeting or to a personal room.         *)
Links == [https : BOOLEAN, plain : BOOLEAN, zoom : BOOLEAN,
          room : {"meeting", "personal", "other"}, number : Nat, passcodes : Nat]

IsJoinLink(link) ==
    /\ link.https /\ link.plain /\ link.zoom
    /\ link.room # "other"
    /\ link.passcodes <= 1

(* bind_zoom_meeting. A typed id is a number, one with spaces in it, or a  *)
(* UUID; only a plain number is compared with the number of the link.      *)
TypedIds == [form : {"number", "spaced", "uuid"}, value : Nat]

ASSUME InputsAssumption ==
    OwnerInputs \subseteq [typed : TypedIds \cup {None}, link : Links \cup {None}]

Names(link) == link # None /\ link.room = "meeting"

Contradicts(typed, link) ==
    typed # None /\ Names(link) /\ typed.form = "number" /\ typed.value # link.number

CanBind(input) ==
    input.link # None => IsJoinLink(input.link) /\ ~Contradicts(input.typed, input.link)

Bound(input) ==
    CASE input.typed # None -> input.typed
      [] input.typed = None /\ Names(input.link) -> [form |-> "number", value |-> input.link.number]
      [] OTHER -> None

(* verify_webhook_signature: signed with the secret, and fresh.            *)
Verified(offer) == offer.signed /\ -Tolerance <= offer.age /\ offer.age <= Tolerance

(* _find_session_for_meeting: bound to the UUID or to the number.          *)
Concerns(offer) ==
    /\ meeting # None
    /\ meeting.value = IF meeting.form = "uuid" THEN offer.uuid ELSE offer.number

-----------------------------------------------------------------------------
(* parse_transcript_message and map_transcript_message: the messages that  *)
(* become chunks, and the identifier that a message sent again has too.    *)
WellFormed(message) == message.start <= message.end
Said(message) == message.text # "blank"
InLecture(message) == message.end > ClockOrigin
BecomesChunk(message) == WellFormed(message) /\ Said(message) /\ InLecture(message)

ChunkId(message) == <<message.stream, message.speaker, message.start, message.end>>
ChunkOf(message) == [id |-> ChunkId(message), revision |-> 1]
FromZoom == {ChunkId(message) : message \in Messages}

ASSUME IngestAssumption ==
    /\ Pump \in Requests
    /\ \A message \in Messages : BecomesChunk(message) => ChunkId(message) \in Ids

-----------------------------------------------------------------------------
AtRest == proc[Pump].at = "idle"

(* start_stream and the first half of run: the signaling handshake is sent. *)
Started(offer) ==
    /\ phase = "off" /\ AtRest
    /\ Verified(offer) /\ Concerns(offer)
    /\ phase' = "signaling" /\ lost' = {}
    /\ UNCHANGED <<vars, meeting>>

(* The server answers with the URL of the media connection; it is opened   *)
(* and its handshake sent.                                                 *)
SignalingAccepted ==
    /\ phase = "signaling" /\ "signaling" \notin lost
    /\ phase' = "media"
    /\ UNCHANGED <<vars, meeting, lost>>

(* The acknowledgement goes out on the signaling connection, which nobody  *)
(* has read meanwhile: it may be closed, or silent, by now.                *)
MediaAccepted ==
    /\ phase = "media" /\ "media" \notin lost
    /\ \/ phase' = "streaming" /\ UNCHANGED lost
       \/ "signaling" \in lost /\ phase' = "off" /\ lost' = {}
    /\ UNCHANGED <<vars, meeting>>

(* A handshake is rejected, answered without a URL or malformed.           *)
Rejected ==
    /\ phase \in Connections /\ phase \notin lost
    /\ phase' = "off" /\ lost' = {}
    /\ UNCHANGED <<vars, meeting>>

(* Nothing arrives within the time that each receive allows. A handshake   *)
(* that other frames keep busy is awaited for ever.                        *)
HandshakeFails ==
    /\ phase \in lost
    /\ phase' = "off" /\ lost' = {}
    /\ UNCHANGED <<vars, meeting>>

(* Zoom closes a connection, falls silent on it, or terminates the stream. *)
Opened == CASE phase = "off" -> {} [] phase = "signaling" -> {"signaling"} [] OTHER -> Connections

Loses(connection) ==
    /\ connection \in Opened \ lost
    /\ lost' = lost \cup {connection}
    /\ UNCHANGED <<vars, meeting, phase>>

(* _pump_until_closed returns with the first of the pumps.                 *)
BothOver == lost = Connections   \* slip: waits for all of the pumps

PumpOver == lost # {}

StreamOver ==
    /\ phase = "streaming" /\ PumpOver /\ AtRest
    /\ phase' = "off" /\ lost' = {}
    /\ UNCHANGED <<vars, meeting>>

(* The service stops the stream, in whatever phase.                        *)
Stop ==
    /\ phase # "off" /\ AtRest
    /\ phase' = "off" /\ lost' = {}
    /\ UNCHANGED <<vars, meeting>>

-----------------------------------------------------------------------------
(* _pump_media hands over one message, and _ingest_transcript makes a      *)
(* batch of it, whose outcome the stream survives.                         *)
Hear(message) ==
    /\ phase = "streaming" /\ "media" \notin lost
    /\ BecomesChunk(message)
    /\ Begin(Pump, <<ChunkOf(message)>>)
    /\ UNCHANGED <<mongo, client>>

Ingest ==
    /\ LookUp(Pump) \/ RejectChunk(Pump) \/ TakeChunk(Pump) \/ Accept(Pump)
    /\ UNCHANGED <<mongo, client>>

Heard ==
    /\ proc[Pump].at = "answered"
    /\ proc' = [proc EXCEPT ![Pump] = Idle]
    /\ UNCHANGED <<mongo, overlapped, chunks, streamed, torn, client>>

(* Others upload chunks of their own, and corrections of what they saw.    *)
Uploads ==
    {batch \in Batches : \A n \in DOMAIN batch :
        batch[n].id \in FromZoom =>
            batch[n].revision # 1 /\ \E chunk \in streamed : chunk.id = batch[n].id}

Upload(p) ==
    /\ (\E batch \in Uploads : Begin(p, batch)) \/ Handle(p)
    /\ UNCHANGED <<mongo, client>>

-----------------------------------------------------------------------------
ZoomInit ==
    /\ Init
    /\ \E input \in OwnerInputs : CanBind(input) /\ meeting = Bound(input)
    /\ phase = "off" /\ lost = {}

Serving == Ingest \/ Heard

ZoomNext ==
    \/ \E offer \in Offers : Started(offer)
    \/ SignalingAccepted \/ MediaAccepted \/ Rejected \/ HandshakeFails
    \/ \E connection \in Connections : Loses(connection)
    \/ StreamOver \/ Stop
    \/ \E message \in Messages : Hear(message)
    \/ Serving
    \/ \E p \in Requests \ {Pump} : Upload(p)

(* The event loop runs what is ready: every receive has a timeout, the     *)
(* task that awaits the pumps is woken when the first has ended, however   *)
(* busy the other is, and a batch is ingested without an await.            *)
ZoomSpec ==
    /\ ZoomInit /\ [][ZoomNext]_zoomVars
    /\ WF_zoomVars(Serving) /\ WF_zoomVars(HandshakeFails) /\ SF_zoomVars(StreamOver)

-----------------------------------------------------------------------------
(* What is said in the meeting is in the timeline once, however often Zoom *)
(* sends it again, on one stream or after a reconnection under its name,   *)
(* and however many correct it at once: a replay neither doubles nor       *)
(* undoes a text, unless it, or a correction, was looked up while a text   *)
(* was being replaced; and what the members were told is in the timeline.  *)
UtterancesStoredOnce ==
    /\ StreamedIsStored
    /\ \A id \in FromZoom \ torn :
           Cardinality({n \in DOMAIN chunks : chunks[n].id = id}) <= 1

(* A stream does not outlive either of its connections: however much one   *)
(* of them still delivers, the loss of the one that the client waits on    *)
(* ends it, and another offer can be taken up.                             *)
LossEndsStream ==
    (phase \in lost \/ (phase = "streaming" /\ lost # {})) ~> phase = "off"

=============================================================================
