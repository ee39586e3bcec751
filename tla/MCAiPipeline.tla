---------------------------- MODULE MCAiPipeline ----------------------------
(* Two API processes and the pipeline at one channel.                      *)
EXTENDS AiPipeline

Upsert(content, chat, author, text) ==
    [on |-> "messages.upsert", id |-> "id", content |-> content, chat |-> chat,
     author |-> author, fromMe |-> "false", text |-> text]

Reports ==
    [first  |-> Upsert("conversation", "chat", "ana", "hola"),
     second |-> Upsert("extendedTextMessage", "chat", "ana", "adios"),
     third  |-> Upsert("conversation", "chat", "ana", "hola"),
     short  |-> Upsert("conversation", "chat", "ana", "a"),
     direct |-> Upsert("conversation", "other", "", "hola"),
     image  |-> Upsert("imageMessage", "chat", "ana", ""),
     own    |-> [Upsert("conversation", "chat", "", "hola") EXCEPT !.fromMe = "true"],
     ack    |-> [on |-> "messages.update", id |-> "id", chat |-> "chat", code |-> 3],
     open   |-> [on |-> "connection.update", connection |-> "open"],
     qr     |-> [on |-> "connection.update", connection |-> ""],
     close  |-> [on |-> "connection.update", connection |-> "close"],
     typing |-> [on |-> "presence.update", chat |-> "chat"],
     title  |-> [on |-> "groups.update", chat |-> "chat"],
     name   |-> [on |-> "contacts.update", chat |-> "chat"],
     unread |-> [on |-> "chats.update", chat |-> "chat"],
     undone |-> [on |-> "messages.delete", id |-> "id", chat |-> "chat", fromMe |-> "false"],
     joined |-> [on |-> "group-participants.update", chat |-> "chat"],
     state  |-> [on |-> "publishStatus", status |-> "connected"],
     answer |-> [on |-> "respondToCommand", requestId |-> "request"]]

MCEvents == DOMAIN Reports
MCReport == [e \in Events |-> Reports[e]]

\* A conversation, a reconnection, and the other events next to a message.
MCDays ==
    {{"first", "second", "third"}, {"first", "open", "close"}} \union {{e, "first"} : e \in MCEvents}

MCSubscribed == [h \in Hooks |-> IF h = "all" THEN {"*"} ELSE {"message.received"}]
=============================================================================
