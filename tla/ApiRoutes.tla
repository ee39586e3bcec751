----------------------------- MODULE ApiRoutes -----------------------------
(***************************************************************************)
(* The routers of the API and how Starlette picks the route of a request:  *)
(* the first route, in the order of inclusion and then of declaration,     *)
(* whose method and path match.  A path is a sequence of segments (the     *)
(* common prefix /api left off) in which P stands for a path parameter.    *)
(* Each route names the service method it awaits, as the steps of          *)
(* ApiServices, and the status it raises when that method returns a falsy  *)
(* value.  Every exception but HTTPException and, in some routes,          *)
(* ValueError becomes a 500, so a route needs no entry for it.             *)
(***************************************************************************)
EXTENDS Naturals, ApiServices

\* A path parameter, such as {channel_id}: it matches any one segment.
P == "{}"

\* A route whose body chooses among several methods (alternatives), and one
\* that awaits a single method.  `falsy` is 200 when the result is not tested.
Choice(method, path, alternatives, falsy) ==
    [method |-> method, path |-> path, does |-> alternatives, falsy |-> falsy]

R(method, path, steps, falsy) == Choice(method, path, {steps}, falsy)

\* APIRouter(prefix=...): the prefix is put before the path of every route.
Mount(prefix, routes) ==
    [i \in DOMAIN routes |-> [routes[i] EXCEPT !.path = prefix \o @]]

----------------------------------------------------------------------------
(* Routers under /api/channels and /api/{channel_id}. *)

ChannelRoutes ==
    <<R("POST",   <<>>,  ChannelRows.create_channel, 200),
      R("GET",    <<>>,  ChannelRows.list_channels, 200),
      R("GET",    <<P>>, ChannelRows.get_channel, 404),
      R("PATCH",  <<P>>, ChannelRows.update_channel, 404)>>

ChannelSessionRoutes ==
    <<R("DELETE", <<P>>, ChannelRows.delete_channel, 404),
      R("POST",   <<P, "start">>,  ChannelRows.start_session, 404),
      R("POST",   <<P, "stop">>,   ChannelRows.stop_session, 404),
      R("GET",    <<P, "status">>, ChannelSession.get_status, 404),
      R("GET",    <<P, "qr">>,     ChannelSession.get_qr, 404)>>

ChannelLogoutRoutes ==
    <<R("GET",    <<P, "qr.png">>, Nothing, 200),
      R("POST",   <<P, "logout">>, ChannelSession.logout_session, 404)>>

\* Every send_* route but send_reaction validates its own body and calls
\* send_message with the type in its path.
SendRoutes ==
    <<R("POST", <<"text">>,     MessageService.send_message, 200),
      R("POST", <<"image">>,    MessageService.send_message, 200),
      R("POST", <<"video">>,    MessageService.send_message, 200),
      R("POST", <<"audio">>,    MessageService.send_message, 200),
      R("POST", <<"document">>, MessageService.send_message, 200)>>

MoreSendRoutes ==
    <<R("POST", <<"location">>, MessageService.send_message, 200),
      R("POST", <<"contact">>,  MessageService.send_message, 200),
      R("POST", <<"poll">>,     MessageService.send_message, 200),
      R("POST", <<"sticker">>,  MessageService.send_message, 200),
      R("POST", <<"reaction">>, MessageActions.react, 200)>>

MessageRoutes ==
    <<R("GET",    <<>>,  MessageService.get_messages, 200),
      R("GET",    <<P>>, MessageService.get_message, 404),
      R("DELETE", <<P>>, MessageService.delete_message, 404),
      R("POST",   <<P, "forward">>, MessageActions.forward_message, 404)>>

\* The actions the schema of the request allows.
ChatActions == {"archive", "unarchive", "pin", "unpin", "mute", "unmute", "mark_read"}

ChatRoutes ==
    <<R("GET",    <<>>,  ChatService.get_chats, 200),
      R("GET",    <<P>>, ChatService.get_chat, 404),
      Choice("POST", <<P, "action">>,
             {UpdateChatSettings(action) : action \in ChatActions}, 404),
      R("DELETE", <<P>>, ChatService.delete_chat, 404),
      R("GET",    <<P, "messages">>, ChatService.get_chat_messages, 200)>>

ContactRoutes ==
    <<R("GET",  <<>>,  ContactService.get_contacts, 200),
      R("GET",  <<P>>, ContactService.get_contact, 404),
      R("POST", <<"check">>, ContactService.check_phones, 200),
      R("GET",  <<P, "profile-pic">>, ContactCommands.get_profile, 200),
      R("POST", <<P, "block">>,   ContactCommands.block_contact, 404),
      R("POST", <<P, "unblock">>, ContactCommands.unblock_contact, 404)>>

GroupRoutes ==
    <<R("POST",   <<>>,  GroupService.create_group, 200),
      R("GET",    <<>>,  GroupService.get_groups, 200),
      R("GET",    <<P>>, GroupService.get_group, 404),
      R("PATCH",  <<P>>, GroupService.update_group, 404),
      R("DELETE", <<P>>, GroupService.leave_group, 404)>>

GroupMemberRoutes ==
    <<Choice("POST", <<P, "participants">>,
             {GroupMembers.add_participants, GroupMembers.remove_participants,
              GroupMembers.promote_admin, GroupMembers.demote_admin}, 404),
      R("GET",  <<P, "invite">>, GroupService.get_invite, 404),
      R("POST", <<P, "invite", "revoke">>, GroupService.revoke_invite, 404),
      R("POST", <<P, "pic">>, GroupMembers.set_icon, 404)>>

WebhookRoutes ==
    <<R("POST",   <<>>,  WebhookRows.create_webhook, 200),
      R("GET",    <<>>,  WebhookRows.get_webhooks, 200),
      R("GET",    <<P>>, WebhookRows.get_webhook, 404),
      R("PATCH",  <<P>>, WebhookRows.update_webhook, 404)>>

WebhookLogRoutes ==
    <<R("DELETE", <<P>>, WebhookRows.delete_webhook, 404),
      R("GET",    <<P, "logs">>, WebhookRows.get_webhook \o WebhookRows.get_logs, 404),
      R("POST",   <<P, "test">>, WebhookRows.get_webhook \o <<Insert("webhook_logs")>>, 404)>>

PresenceRoutes ==
    <<R("GET",  <<P>>, PresenceService.get_presence, 404),
      Choice("POST", <<"subscribe">>,
             {PresenceService.subscribe_presence,
              PresenceService.subscribe_presence \o PresenceService.subscribe_presence}, 200),
      R("POST", <<"available">>,   PresenceService.set_my_presence, 200),
      R("POST", <<"unavailable">>, PresenceService.set_my_presence, 200)>>

\* A type or size that is refused ends the upload before the service runs.
MediaRoutes ==
    <<Choice("POST", <<"upload">>, {<<Step("refuse", "media")>>, MediaService.upload_media}, 200),
      R("GET",    <<P>>, MediaService.get_media, 404),
      R("GET",    <<P, "download">>, MediaService.download_media, 404),
      R("DELETE", <<P>>, MediaService.delete_media, 404)>>

----------------------------------------------------------------------------
(* Routers whose channel comes from the API key alone. *)

UserRoutes ==
    <<R("GET",  <<"login">>, UserService.get_qr_base64, 404),
      R("GET",  <<"login", "image">>, UserService.get_qr_image, 404),
      R("GET",  <<"login", "rowdata">>, UserService.get_qr_rawdata, 404),
      R("GET",  <<"login", P>>, UserService.get_auth_code, 400),
      R("POST", <<"logout">>, UserService.logout, 400)>>

ProfileRoutes ==
    <<R("GET",   <<"profile">>, UserService.get_profile, 404),
      Choice("PATCH", <<"profile">>,
             {<<Step("refuse", "profile")>>, UserService.update_profile}, 400)>>

\* status_router and limits_router sit directly under /api.
StatusRoute == R("PUT", <<"status">>, UserService.change_status_text, 400)
LimitsRoute == R("GET", <<"limits">>, Nothing, 200)

SettingsRoutes ==
    <<R("GET",    <<>>, ChannelSession.get_settings, 404),
      R("DELETE", <<>>, ChannelSession.reset_settings, 200),
      Choice("PATCH", <<>>,
             {<<Step("refuse", "channels")>>, ChannelSession.update_settings}, 200),
      R("GET",    <<"events">>, Nothing, 200),
      R("POST",   <<"webhook_test">>, ChannelRows.get_channel, 400)>>

StoryRoutes ==
    <<R("GET",  <<>>,  StoryService.get_stories, 200),
      R("GET",  <<P>>, StoryService.get_story, 404),
      R("POST", <<>>,  StoryService.create_story, 200),
      R("POST", <<"send", "text">>, StoryService.send_text_story, 200)>>

StoryMediaRoutes ==
    <<R("POST", <<"send", "media">>, StoryService.send_media_story, 200),
      R("POST", <<"send", "audio">>, StoryService.send_audio_story, 200),
      R("PUT",  <<P>>, StoryService.copy_story, 404)>>

StatusesRoutes == <<R("GET", <<P>>, StatusService.get_view_statuses, 404)>>

NewsletterRoutes ==
    <<R("GET",    <<>>, NewsletterService.get_newsletters, 200),
      R("POST",   <<>>, NewsletterService.create_newsletter, 200),
      R("GET",    <<"find">>, NewsletterService.find_newsletters, 200),
      R("GET",    <<"recommended">>, NewsletterService.get_recommended, 200),
      R("GET",    <<P>>, NewsletterService.get_newsletter, 404)>>

NewsletterEditRoutes ==
    <<R("DELETE", <<P>>, NewsletterService.delete_newsletter, 404),
      R("PATCH",  <<P>>, NewsletterService.edit_newsletter, 404),
      R("POST",   <<P, "subscription">>, NewsletterService.subscribe, 404),
      R("DELETE", <<P, "subscription">>, NewsletterService.unsubscribe, 404)>>

NewsletterInviteRoutes ==
    <<R("POST",   <<"invite", P, "subscription">>, NewsletterInvites.subscribe_by_invite, 404),
      R("DELETE", <<"invite", P, "subscription">>, NewsletterInvites.unsubscribe_by_invite, 404),
      R("POST",   <<P, "tracking">>, NewsletterInvites.track_updates, 404),
      R("GET",    <<P, "messages">>, NewsletterInvites.get_messages, 404)>>

NewsletterAdminRoutes ==
    <<R("POST",   <<P, "invite", P>>, NewsletterInvites.create_admin_invite, 404),
      R("DELETE", <<P, "invite", P>>, NewsletterInvites.revoke_admin_invite, 404),
      R("PUT",    <<P, "admins", P>>, NewsletterInvites.accept_admin_request, 404),
      R("DELETE", <<P, "admins", P>>, NewsletterInvites.demote_admin, 404)>>

NewsletterLinkRoutes ==
    <<R("POST",   <<"link", P>>, NewsletterInvites.send_invite_link, 400),
      R("GET",    <<"link", P>>, NewsletterInvites.get_by_invite, 404)>>

BusinessRoutes ==
    <<R("GET",    <<>>, BusinessService.get_profile, 404),
      R("POST",   <<>>, BusinessService.edit_profile, 400),
      R("GET",    <<"products">>, BusinessService.get_products, 200),
      R("POST",   <<"products">>, BusinessService.create_product, 200),
      R("GET",    <<P, "products">>, BusinessService.get_products_by_contact, 404)>>

BusinessProductRoutes ==
    <<R("GET",    <<"products", P>>, BusinessService.get_product, 404),
      R("POST",   <<"products", P>>, BusinessService.send_product, 404),
      R("PATCH",  <<"products", P>>, BusinessService.update_product, 404),
      R("DELETE", <<"products", P>>, BusinessService.delete_product, 404)>>

BusinessOrderRoutes ==
    <<R("GET",    <<"orders", P>>, BusinessCatalog.get_order, 404),
      R("POST",   <<"catalogs", P>>, BusinessCatalog.send_catalog, 400),
      R("POST",   <<"collections">>, BusinessCatalog.create_collection, 200),
      R("GET",    <<"collections">>, BusinessCatalog.get_collections, 200),
      R("GET",    <<"collections", "products">>, BusinessCatalog.get_collections_products, 200)>>

BusinessCollectionRoutes ==
    <<R("GET",    <<"collections", P>>, BusinessCatalog.get_collection, 404),
      R("PATCH",  <<"collections", P>>, BusinessCatalog.edit_collection, 404),
      R("DELETE", <<"collections", P>>, BusinessCatalog.delete_collection, 404),
      R("GET",    <<"collections", P, "products">>, BusinessCatalog.get_collection_products, 404)>>

LabelRoutes ==
    <<R("GET",    <<>>,  LabelService.get_labels, 200),
      R("POST",   <<>>,  LabelService.create_label, 200),
      R("GET",    <<P>>, LabelService.get_label_objects, 404),
      R("POST",   <<P, P>>, LabelService.add_association, 404),
      R("DELETE", <<P, P>>, LabelService.delete_association, 404)>>

BlacklistRoutes ==
    <<R("GET",    <<>>,  BlacklistService.get_blacklist, 200),
      R("PUT",    <<P>>, BlacklistService.add_to_blacklist, 400),
      R("DELETE", <<P>>, BlacklistService.remove_from_blacklist, 404)>>

CommunityRoutes ==
    <<R("GET",    <<>>,  CommunityService.get_communities, 200),
      R("POST",   <<>>,  CommunityService.create_community, 200),
      R("GET",    <<P>>, CommunityService.get_community, 404),
      R("POST",   <<P>>, CommunityService.create_group_in_community, 404),
      R("DELETE", <<P>>, CommunityService.deactivate_community, 404)>>

CommunityGroupRoutes ==
    <<R("DELETE", <<P, "link">>, CommunityService.revoke_invite, 404),
      R("PUT",    <<P, P>>, CommunityService.link_group, 404),
      R("DELETE", <<P, P>>, CommunityService.unlink_group, 404),
      R("POST",   <<P, P, "join">>, CommunityService.join_group, 404),
      R("PATCH",  <<P, "settings">>, CommunityService.change_settings, 404)>>

CommunityMemberRoutes ==
    <<R("POST",   <<P, "participants">>, CommunityMembers.add_participants, 404),
      R("DELETE", <<P, "participants">>, CommunityMembers.remove_participants, 404),
      R("PATCH",  <<P, "admins">>, CommunityMembers.promote_admins, 404),
      R("DELETE", <<P, "admins">>, CommunityMembers.demote_admins, 404)>>

CommunityMoreRoutes ==
    <<R("GET",    <<P, "subgroups">>, CommunityMembers.get_subgroups, 404),
      R("POST",   <<"event">>, CommunityMembers.create_event, 200),
      R("POST",   <<P, "createGroup">>, CommunityService.create_group_in_community, 404)>>

CallRoutes ==
    <<R("POST",   <<>>,  CallService.create_call, 200),
      R("DELETE", <<P>>, CallService.reject_call, 404),
      R("POST",   <<P, "reject">>, CallService.reject_call, 404),
      R("POST",   <<"group_link">>, CallService.create_group_call_link, 200)>>

----------------------------------------------------------------------------
(* The application. *)

\* app.include_router, in the order of main.py.
Routes ==
    Mount(<<"channels">>, ChannelRoutes \o ChannelSessionRoutes \o ChannelLogoutRoutes)
    \o Mount(<<P, "messages">>, SendRoutes \o MoreSendRoutes \o MessageRoutes)
    \o Mount(<<P, "chats">>, ChatRoutes)
    \o Mount(<<P, "contacts">>, ContactRoutes)
    \o Mount(<<P, "groups">>, GroupRoutes \o GroupMemberRoutes)
    \o Mount(<<P, "webhooks">>, WebhookRoutes \o WebhookLogRoutes)
    \o Mount(<<P, "presence">>, PresenceRoutes)
    \o Mount(<<P, "media">>, MediaRoutes)
    \o Mount(<<"users">>, UserRoutes \o ProfileRoutes)
    \o <<StatusRoute>>
    \o Mount(<<"settings">>, SettingsRoutes)
    \o <<LimitsRoute>>
    \o Mount(<<"stories">>, StoryRoutes \o StoryMediaRoutes)
    \o Mount(<<"statuses">>, StatusesRoutes)
    \o Mount(<<"newsletters">>, NewsletterRoutes \o NewsletterEditRoutes
             \o NewsletterInviteRoutes \o NewsletterAdminRoutes \o NewsletterLinkRoutes)
    \o Mount(<<"business">>, BusinessRoutes \o BusinessProductRoutes
             \o BusinessOrderRoutes \o BusinessCollectionRoutes)
    \o Mount(<<"labels">>, LabelRoutes)
    \o Mount(<<"blacklist">>, BlacklistRoutes)
    \o Mount(<<"communities">>, CommunityRoutes \o CommunityGroupRoutes
             \o CommunityMemberRoutes \o CommunityMoreRoutes)
    \o Mount(<<"calls">>, CallRoutes)

\* The path of a request meant for a route: an identifier that is no literal
\* segment of any route stands for each parameter.
PathTo(i) == [k \in DOMAIN Routes[i].path |->
                 IF Routes[i].path[k] = P THEN "id" ELSE Routes[i].path[k]]

Matches(route, method, path) ==
    /\ route.method = method
    /\ Len(route.path) = Len(path)
    /\ \A k \in DOMAIN path : route.path[k] \in {P, path[k]}

\* Starlette's Router: the first route that matches serves the request.
ServedBy == [i \in DOMAIN Routes |->
    CHOOSE j \in DOMAIN Routes :
        /\ Matches(Routes[j], Routes[i].method, PathTo(i))
        /\ \A h \in 1..(j - 1) : ~ Matches(Routes[h], Routes[i].method, PathTo(i))]
=============================================================================
