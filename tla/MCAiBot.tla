------------------------------ MODULE MCAiBot ------------------------------
(* AiBot with two chats, one of which has more turns than its history.     *)
EXTENDS AiBot

MCChatOf == [m \in Messages |-> IF m < 3 THEN "chat1" ELSE "chat2"]
=============================================================================
