---------------------------- MODULE EventMapper ----------------------------
(***************************************************************************)
(* engine/src/event-mapper.ts: the event and the data the engine publishes *)
(* for what Baileys reports, and how the API reads such data.  Data is a   *)
(* function from the fields that are there to their values; a value is a   *)
(* string, "null", "true" and "false" included.  Fields no consumer reads, *)
(* as sizes, keys and dimensions of media, are left out.                   *)
(***************************************************************************)
EXTENDS Naturals, TLC

\* data.get(field, default): the default stands in for an absent field only.
Get(data, field, default) == IF field \in DOMAIN data THEN data[field] ELSE default

Truthy(value) == value \notin {"", "null", "false"}

\* value || other
Or(value, other) == IF Truthy(value) THEN value ELSE other

----------------------------------------------------------------------------
(* The mapping. *)

Base(msg) ==
    [messageId |-> msg.id, remoteJid |-> msg.chat, fromMe |-> msg.fromMe,
     participant |-> Or(msg.author, "null")]

Plain(type) == [type |-> type]
Textual(msg) == [type |-> "text", text |-> msg.text]
Media(type) == [type |-> type, hasMedia |-> "true"]

\* normalizeMessageContent, by the content Baileys found in the message.
MediaContent ==
    [imageMessage    |-> Media("image"), videoMessage    |-> Media("video"),
     audioMessage    |-> Media("audio"), voiceNote       |-> Media("ptt"),
     documentMessage |-> Media("document"), stickerMessage |-> Media("sticker")]

PlainContent ==
    [locationMessage       |-> Plain("location"),
     liveLocationMessage   |-> Plain("live_location"),
     contactMessage        |-> Plain("contact") @@ [vcard |-> "vcard"],
     contactsArrayMessage  |-> Plain("contacts_array"),
     pollCreationMessage   |-> Plain("poll"),
     pollUpdateMessage     |-> Plain("poll_update"),
     reactionMessage       |-> Plain("reaction")]

EditContent ==
    [revoke                |-> Plain("message_revoke"),
     edit                  |-> Plain("message_edit"),
     buttonsResponse       |-> Plain("button_response"),
     listResponse          |-> Plain("list_response"),
     other                 |-> Plain("unknown")]

Content(msg) ==
    CASE msg.content \in {"conversation", "extendedTextMessage"} -> Textual(msg)
      [] msg.content \in DOMAIN MediaContent -> MediaContent[msg.content]
      [] msg.content \in DOMAIN PlainContent -> PlainContent[msg.content]
      [] OTHER -> EditContent[msg.content]

MapUpsert(msg) ==
    [event |-> IF msg.fromMe = "true" THEN "message.sent" ELSE "message.received",
     data  |-> Base(msg) @@ Content(msg)]

StatusNames == <<"error", "pending", "sent", "delivered", "read", "played">>

MapUpdate(update) ==
    [event |-> "message.status",
     data  |-> [messageId |-> update.id, remoteJid |-> update.chat,
                status |-> Get(StatusNames, update.code + 1, "null")]]

MapConnection(update) ==
    [event |-> "connection.update", data |-> [connection |-> Or(update.connection, "null")]]

MapPresence(update) ==
    [event |-> "presence.update", data |-> [chatId |-> update.chat]]

MapGroup(update) ==
    [event |-> "group.update", data |-> [groupId |-> update.chat]]

MapContact(update) ==
    [event |-> "contact.update", data |-> [jid |-> update.chat]]

MapChat(update) ==
    [event |-> "chat.update", data |-> [chatId |-> update.chat]]

\* Two listeners have no mapper: each builds its data in place.  So do
\* publishStatus and respondToCommand, which push to the same list.
Unmapped(report) ==
    CASE report.on = "messages.delete" ->
            [event |-> "message.deleted",
             data |-> [messageId |-> report.id, remoteJid |-> report.chat, fromMe |-> report.fromMe]]
      [] report.on = "group-participants.update" ->
            [event |-> "group.participants.update", data |-> [groupId |-> report.chat]]
      [] report.on = "publishStatus" ->
            [event |-> "status.update", data |-> [status |-> report.status]]
      [] OTHER ->
            [event |-> "command.response", data |-> [requestId |-> report.requestId]]

\* The listener of each Baileys event maps and publishes it.
Published(report) ==
    CASE report.on = "messages.upsert" -> MapUpsert(report)
      [] report.on = "messages.update" -> MapUpdate(report)
      [] report.on = "connection.update" -> MapConnection(report)
      [] report.on = "presence.update" -> MapPresence(report)
      [] report.on = "groups.update" -> MapGroup(report)
      [] report.on = "contacts.update" -> MapContact(report)
      [] report.on = "chats.update" -> MapChat(report)
      [] OTHER -> Unmapped(report)

----------------------------------------------------------------------------
(* How the API reads the data: event_handler.py. *)

\* _resolve_message_type
MediaTypes ==
    [image |-> "image", video |-> "video", audio |-> "audio", ptt |-> "audio",
     document |-> "document", sticker |-> "sticker"]

MessageType(data) ==
    LET Has(field) == Truthy(Get(data, field, ""))
        Is(type) == Get(data, "type", "") = type
    IN  CASE Has("hasMedia") \/ Has("mediaUrl") ->
                Get(MediaTypes, Get(data, "type", Get(data, "mediaType", "")), "document")
          [] Has("location") \/ Is("location") -> "location"
          [] Has("vcard") \/ Is("contact") -> "contact"
          [] Has("poll") \/ Is("poll") -> "poll"
          [] OTHER -> "text"

\* The id of the row an event is about, in message.sent and message.status.
RowId(data) == Get(data, "id", Get(data, "message_id", ""))

\* The column a received message gives its id in WhatsApp.
MessageIdWa(data) == Get(data, "id", "")

\* The column sender: a participant that is null stays null.
Sender(data) == Get(data, "sender", Get(data, "participant", ""))

\* The status of the channel for each state of its connection; none for others.
StatusMap ==
    [open |-> "connected", connected |-> "connected", connecting |-> "connecting",
     close |-> "disconnected", disconnected |-> "disconnected", logged_out |-> "banned"]

\* What the row of a message becomes: a number is looked up, a name is not in
\* the map, whose default is `sent`.
AckMap == [n0 |-> "pending", n1 |-> "sent", n2 |-> "delivered", n3 |-> "read", n4 |-> "read"]
AckStatus(data) == Get(AckMap, Get(data, "ack", Get(data, "status", "n0")), "sent")
=============================================================================
