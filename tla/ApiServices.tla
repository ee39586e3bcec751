---------------------------- MODULE ApiServices ----------------------------
(***************************************************************************)
(* What every operation of the API's services does, in order, to the rest  *)
(* of the system: one record per service class, with one field per static  *)
(* method, whose value is the sequence of steps the method takes.  Two     *)
(* kinds of methods dominate: those that push a command for the engine and *)
(* return (_publish_command), and those that push it and poll Redis for    *)
(* the engine's answer (_publish_and_wait).  Reads that change nothing and *)
(* cannot miss are the empty sequence.  ChannelService, whose requests     *)
(* have a module of their own, is here only as far as routing needs it.    *)
(***************************************************************************)
EXTENDS Sequences, FiniteSets

\* A step of a request: what it does, and to which command, table or key.
Step(act, what) == [act |-> act, what |-> what]

\* await redis.lpush("wa:cmd:queue", payload)
Push(command) == Step("push", command)

\* Poll wa:res:{request_id} until the answer is there or the time is over.
Await(command) == Step("await", command)

\* scalar_one_or_none(): the method returns None or False when it finds no row.
Find(table) == Step("find", table)

\* The same read where a missing row is answered with a dict, which is truthy.
Seek(table) == Step("seek", table)

Insert(table) == Step("insert", table)
Update(table) == Step("update", table)
Delete(table) == Step("delete", table)

\* _publish_command: the request goes on as soon as the command is in the list.
Relay(command) == <<Push(command)>>

\* _publish_and_wait: the command, then up to ten polls a second for `timeout`.
Call(command) == <<Push(command), Await(command)>>

\* A method that only reads, and answers whatever it reads.
Nothing == <<>>

----------------------------------------------------------------------------
(* Services with rows of their own. *)

\* delete_message reads `.type.value` of a loaded row, whose type is a plain
\* string: the statement raises, after the command is out.
MessageService ==
    [send_message    |-> <<Insert("messages"), Push("send_message")>>,
     get_messages    |-> Nothing,
     get_message     |-> <<Find("messages")>>,
     delete_message  |-> <<Find("messages"), Push("delete_message"),
                           Step("raise", "messages")>>]

\* The rest of MessageService; star_message changes the loaded JSON in place,
\* which the unit of work does not see.
MessageActions ==
    [forward_message |-> Relay("forward_message"),
     mark_as_read    |-> Relay("mark_as_read"),
     react           |-> Relay("react"),
     remove_reaction |-> Relay("remove_reaction"),
     star_message    |-> <<Find("messages")>>,
     pin_message     |-> Relay("pin_message"),
     unpin_message   |-> Relay("unpin_message")]

ChatService ==
    [get_chats         |-> Nothing,
     get_chat          |-> <<Find("chats")>>,
     delete_chat       |-> <<Find("chats"), Push("delete_chat"), Delete("chats")>>,
     archive_chat      |-> Relay("archive_chat"),
     get_chat_messages |-> Nothing]

\* update_chat_settings: the command of each setting it knows, none for others.
ChatCommands == [pin |-> "pin_chat", mute |-> "mute_chat",
                 mark_read |-> "mark_chat_read", disappearing |-> "set_disappearing"]

UpdateChatSettings(setting) ==
    IF setting \in DOMAIN ChatCommands THEN Relay(ChatCommands[setting]) ELSE Nothing

ContactService ==
    [get_contacts    |-> Nothing,
     get_contact     |-> <<Find("contacts")>>,
     check_phones    |-> Call("check_phones"),
     add_contact     |-> <<Insert("contacts")>>,
     edit_contact    |-> <<Find("contacts"), Update("contacts")>>,
     delete_contact  |-> <<Find("contacts"), Delete("contacts")>>]

ContactCommands ==
    [get_profile     |-> Call("get_contact_profile"),
     check_exists    |-> Call("check_contact_exists"),
     block_contact   |-> Relay("block_contact"),
     unblock_contact |-> Relay("unblock_contact")]

GroupService ==
    [create_group   |-> Call("create_group"),
     get_groups     |-> Nothing,
     get_group      |-> <<Find("groups")>>,
     update_group   |-> Call("update_group"),
     leave_group    |-> Relay("leave_group"),
     update_setting |-> Relay("update_group_setting"),
     get_invite     |-> Call("get_group_invite"),
     revoke_invite  |-> Relay("revoke_group_invite")]

GroupMembers ==
    [add_participants    |-> Call("add_group_participants"),
     remove_participants |-> Call("remove_group_participants"),
     promote_admin       |-> Call("promote_group_admin"),
     demote_admin        |-> Call("demote_group_admin"),
     get_icon            |-> Call("get_group_icon"),
     set_icon            |-> Relay("set_group_icon"),
     delete_icon         |-> Relay("delete_group_icon"),
     get_group_by_invite |-> Call("get_group_by_invite"),
     accept_invite       |-> Call("accept_group_invite"),
     get_join_requests   |-> Call("get_group_join_requests"),
     accept_join_request |-> Call("accept_group_join_request"),
     reject_join_request |-> Call("reject_group_join_request")]

\* The file is written before the row is inserted and removed before the row
\* is deleted; a download misses when the row or the file is missing.
MediaService ==
    [upload_media   |-> <<Step("save", "media"), Insert("media")>>,
     get_media_list |-> Nothing,
     get_media      |-> <<Find("media")>>,
     download_media |-> <<Find("media"), Step("open", "media")>>,
     delete_media   |-> <<Find("media"), Step("unlink", "media"), Delete("media")>>]

WebhookRows ==
    [create_webhook |-> <<Insert("webhooks")>>,
     get_webhooks   |-> Nothing,
     get_webhook    |-> <<Find("webhooks")>>,
     update_webhook |-> <<Find("webhooks"), Update("webhooks")>>,
     delete_webhook |-> <<Find("webhooks"), Delete("webhooks")>>,
     get_logs       |-> Nothing]

\* The session operations push with the UPDATE still uncommitted.
ChannelRows ==
    [create_channel  |-> <<Insert("channels")>>,
     list_channels   |-> Nothing,
     get_channel     |-> <<Find("channels")>>,
     update_channel  |-> <<Find("channels"), Update("channels")>>,
     delete_channel  |-> <<Find("channels"), Update("channels")>>,
     start_session   |-> <<Seek("channels"), Update("channels"), Push("start_session")>>,
     stop_session    |-> <<Seek("channels"), Update("channels"), Push("stop_session")>>]

ChannelSession ==
    [get_qr          |-> Nothing,
     get_status      |-> Nothing,
     logout_session  |-> <<Seek("channels"), Push("logout"), Push("delete_session"),
                           Update("channels"), Step("forget", "keys")>>,
     get_settings    |-> <<Find("channels")>>,
     update_settings |-> <<Seek("channels"), Update("channels")>>,
     reset_settings  |-> <<Seek("channels"), Update("channels")>>]

----------------------------------------------------------------------------
(* Services that only relay commands and keys. *)

NewsletterService ==
    [get_newsletters        |-> Call("get_newsletters"),
     create_newsletter      |-> Call("create_newsletter"),
     find_newsletters       |-> Call("find_newsletters"),
     get_recommended        |-> Call("get_recommended_newsletters"),
     get_newsletter         |-> Call("get_newsletter"),
     delete_newsletter      |-> Relay("delete_newsletter"),
     edit_newsletter        |-> Call("edit_newsletter"),
     subscribe              |-> Relay("subscribe_newsletter"),
     unsubscribe            |-> Relay("unsubscribe_newsletter")]

NewsletterInvites ==
    [subscribe_by_invite    |-> Relay("subscribe_newsletter_by_invite"),
     unsubscribe_by_invite  |-> Relay("unsubscribe_newsletter_by_invite"),
     track_updates          |-> Relay("track_newsletter_updates"),
     get_messages           |-> Call("get_newsletter_messages"),
     create_admin_invite    |-> Call("create_newsletter_admin_invite"),
     revoke_admin_invite    |-> Relay("revoke_newsletter_admin_invite"),
     accept_admin_request   |-> Relay("accept_newsletter_admin_request"),
     demote_admin           |-> Relay("demote_newsletter_admin"),
     get_by_invite          |-> Call("get_newsletter_by_invite"),
     send_invite_link       |-> Call("send_newsletter_invite_link")]

CommunityService ==
    [get_communities           |-> Call("get_communities"),
     create_community          |-> Call("create_community"),
     get_community             |-> Call("get_community"),
     create_group_in_community |-> Call("create_group_in_community"),
     deactivate_community      |-> Relay("deactivate_community"),
     revoke_invite             |-> Relay("revoke_community_invite"),
     link_group                |-> Relay("link_group_to_community"),
     unlink_group              |-> Relay("unlink_group_from_community"),
     join_group                |-> Relay("join_community_group"),
     change_settings           |-> Relay("change_community_settings")]

CommunityMembers ==
    [add_participants    |-> Call("add_community_participants"),
     remove_participants |-> Call("remove_community_participants"),
     promote_admins      |-> Call("promote_community_admins"),
     demote_admins       |-> Call("demote_community_admins"),
     get_subgroups       |-> Call("get_community_subgroups"),
     create_event        |-> Call("create_community_event"),
     create_group        |-> Call("create_group_in_community")]

BusinessService ==
    [get_profile             |-> Call("get_business_profile"),
     edit_profile            |-> Call("edit_business_profile"),
     get_products            |-> Call("get_products"),
     create_product          |-> Call("create_product"),
     get_products_by_contact |-> Call("get_products_by_contact"),
     get_product             |-> Call("get_product"),
     send_product            |-> Call("send_product"),
     update_product          |-> Call("update_product"),
     delete_product          |-> Relay("delete_product")]

BusinessCatalog ==
    [get_order                |-> Call("get_order"),
     send_catalog             |-> Call("send_catalog"),
     create_collection        |-> Call("create_collection"),
     get_collections          |-> Call("get_collections"),
     get_collections_products |-> Call("get_collections_products"),
     get_collection           |-> Call("get_collection"),
     edit_collection          |-> Call("edit_collection"),
     delete_collection        |-> Relay("delete_collection"),
     get_collection_products  |-> Call("get_collection_products")]

StoryService ==
    [get_stories      |-> Call("get_stories"),
     get_story        |-> Call("get_story"),
     send_text_story  |-> Call("send_text_story"),
     send_media_story |-> Call("send_media_story"),
     send_audio_story |-> Call("send_audio_story"),
     copy_story       |-> Call("copy_story"),
     create_story     |-> Call("create_story")]

LabelService ==
    [get_labels         |-> Call("get_labels"),
     create_label       |-> Call("create_label"),
     get_label_objects  |-> Call("get_label_objects"),
     add_association    |-> Relay("add_label_association"),
     delete_association |-> Relay("delete_label_association")]

CallService ==
    [create_call            |-> Call("create_call"),
     reject_call            |-> Relay("reject_call"),
     create_group_call_link |-> Call("create_group_call_link")]

\* The qr keys are read only; logout pushes, then deletes the cached keys.
UserService ==
    [get_qr_base64      |-> Nothing,
     get_qr_image       |-> Nothing,
     get_qr_rawdata     |-> Nothing,
     get_auth_code      |-> Call("get_auth_code"),
     logout             |-> <<Push("logout"), Step("forget", "keys")>>,
     get_profile        |-> Call("get_my_profile"),
     update_profile     |-> Call("update_my_profile"),
     change_status_text |-> Relay("change_status_text")]

\* get_presence answers from the cache when it can, and fills it otherwise.
PresenceService ==
    [get_presence       |-> <<Step("peek", "presence")>> \o Call("get_presence")
                             \o <<Step("fill", "presence")>>,
     subscribe_presence |-> Relay("subscribe_presence"),
     set_my_presence    |-> Relay("set_presence"),
     send_typing        |-> Relay("send_typing")]

StatusService == [get_view_statuses |-> Call("get_view_statuses")]

BlacklistService ==
    [get_blacklist         |-> Call("get_blacklist"),
     add_to_blacklist      |-> Relay("block_contact"),
     remove_from_blacklist |-> Relay("unblock_contact")]
=============================================================================
