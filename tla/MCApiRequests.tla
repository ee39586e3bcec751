--------------------------- MODULE MCApiRequests ---------------------------
(* ApiRequests with the routes of the application.                         *)
EXTENDS ApiRoutes, ApiRequests

MCTable == Routes
MCNames == STRING
MCServes == ServedBy

\* The routes that write what others read: a message, a chat and a media
\* deleted, a media uploaded, a webhook deleted.
Sample ==
    {<<"POST",   <<P, "messages", "text">>>>, <<"DELETE", <<P, "chats", P>>>>,
     <<"POST",   <<P, "media", "upload">>>>,  <<"DELETE", <<P, "media", P>>>>,
     <<"DELETE", <<P, "webhooks", P>>>>}

SampleRoutes == {i \in DOMAIN Routes : <<Routes[i].method, Routes[i].path>> \in Sample}

\* The commands the engine has no case for all end alike.
Unnamed(steps) ==
    [k \in DOMAIN steps |->
        IF steps[k].act = "push" /\ steps[k].what \notin EngineActions
        THEN StepOf("push", "other") ELSE steps[k]]

\* Routes with one service, up to those commands, and one answer for what is
\* not there do the same: the first of them stands for all.
Does == [i \in DOMAIN Routes |->
            <<{Unnamed(steps) : steps \in Routes[ServedBy[i]].does}, Routes[ServedBy[i]].falsy>>]
Distinct == {i \in DOMAIN Routes : \A j \in 1..(i - 1) : Does[i] # Does[j]}

MCAsks == [r \in Requests |-> IF r = 1 THEN Distinct ELSE SampleRoutes]
=============================================================================
