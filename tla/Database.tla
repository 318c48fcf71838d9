------------------------------ MODULE Database ------------------------------
(***************************************************************************)
(* The three tables that decide who gets an alert, as the rest of the      *)
(* program may rely on them: users, user_settings and watchlist            *)
(* (internal/db).  Each change is one step, settings and followed wallets  *)
(* belong to users, and leaving takes them along.                          *)
(*                                                                         *)
(* Watchlist and Settings, where a request is many steps that overlap,     *)
(* implement this specification; the handlers of AlertPipeline are its     *)
(* steps.                                                                  *)
(***************************************************************************)
CONSTANTS
    Chats,              \* who can be a user
    Wallets,            \* wallets, in the spelling that is stored
    Settings,           \* settings a user can have
    DefaultSettings     \* those of a user who never saved any

VARIABLES
    users,              \* subscribed chats
    settings,           \* the settings each chat has, or would have
    watch               \* <<chat, wallet>> rows of the watchlist

vars == <<users, settings, watch>>

Init ==
    /\ users \in SUBSET Chats
    /\ settings \in [Chats -> Settings]
    /\ \A c \in Chats \ users : settings[c] = DefaultSettings
    /\ watch \in SUBSET (users \X Wallets)

Subscribe(c) ==
    /\ users' = users \cup {c}
    /\ UNCHANGED <<settings, watch>>

\* The settings row and the watchlist rows go with the user (ON DELETE CASCADE).
Unsubscribe(c) ==
    /\ users' = users \ {c}
    /\ settings' = [settings EXCEPT ![c] = DefaultSettings]
    /\ watch' = {r \in watch : r[1] # c}

\* The foreign key refuses a chat that is no user.
SaveSettings(c, s) ==
    /\ c \in users
    /\ settings' = [settings EXCEPT ![c] = s]
    /\ UNCHANGED <<users, watch>>

Follow(c, w) ==
    /\ c \in users
    /\ watch' = watch \cup {<<c, w>>}
    /\ UNCHANGED <<users, settings>>

Unfollow(c, w) ==
    /\ watch' = watch \ {<<c, w>>}
    /\ UNCHANGED <<users, settings>>

\* The new settings are whatever they are afterwards, as long as they are settings.
Next ==
    \E c \in Chats :
        \/ Subscribe(c)
        \/ Unsubscribe(c)
        \/ settings'[c] \in Settings /\ SaveSettings(c, settings'[c])
        \/ \E w \in Wallets : Follow(c, w) \/ Unfollow(c, w)

Spec == Init /\ [][Next]_vars
=============================================================================
