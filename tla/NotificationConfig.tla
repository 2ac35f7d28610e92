-------------------------- MODULE NotificationConfig --------------------------
(***************************************************************************)
(* The settings of notifications that several parties change at once: a    *)
(* Telegram bot, whose token one user replaces while another verifies it,  *)
(* and the default in-app channel, which a notifier creates when a rule    *)
(* names no channel and no in-app channel is active.                       *)
(***************************************************************************)
EXTENDS Naturals, FiniteSets

CONSTANTS
    Tokens,         \* bot tokens; a user name belongs to each
    Good,           \* the tokens Telegram accepts
    Verifiers,      \* calls of verify_telegram_bot
    Resolvers,      \* calls of get_or_create_default_in_app_channel
    Channels,       \* in-app channels, numbered in the order of created_at
    MaxEdits,       \* bound on the user's edits
    None

Assumptions == Good \subseteq Tokens /\ None \notin Tokens /\ Channels \subseteq Nat /\ MaxEdits \in Nat

VARIABLES
    bot,        \* telegram_bots: its token, status and verification, and the
                \* token its user name was read with
    verifier,   \* what each verification is at, and the token it asks about
    channel,    \* notification_channels of type in_app
    resolver,   \* what each resolution is at, and the channel it found
    edits,
    overtaken,  \* history: the bot's verification is of a token replaced meanwhile
    offered     \* history: of each resolution, channels active while it ran, and
                \* whether the user took the default away

vars == <<bot, verifier, channel, resolver, edits, overtaken, offered>>
botVars == <<bot, verifier, overtaken>>
channelVars == <<channel, resolver, offered>>

NoBot == [token |-> None, active |-> FALSE, verification |-> "unverified", username |-> None]
NoChannel == [state |-> "none", default |-> FALSE]

Init ==
    /\ bot = NoBot
    /\ verifier = [v \in Verifiers |-> [pc |-> "idle", token |-> None]]
    /\ channel = [c \in Channels |-> NoChannel]
    /\ resolver = [r \in Resolvers |-> [pc |-> "idle", found |-> None]]
    /\ edits = 0
    /\ overtaken = FALSE
    /\ offered = [r \in Resolvers |-> [channels |-> {}, taken |-> FALSE]]

Edited == edits < MaxEdits /\ edits' = edits + 1

CreateBot ==
    /\ bot = NoBot /\ Edited
    /\ \E t \in Tokens : bot' = [NoBot EXCEPT !.token = t, !.active = TRUE]
    /\ UNCHANGED <<verifier, overtaken, channelVars>>

\* UPDATE_TELEGRAM_BOT_QUERY: a token that is given resets the verification, even
\* if it is the same one.
\* A faulty one: only the token changes.
WithTokenOnly(b, t) == [b EXCEPT !.token = t]
WithToken(b, t) == [b EXCEPT !.token = t, !.verification = "unverified", !.username = None]
ReplaceToken ==
    /\ bot # NoBot /\ Edited
    /\ \E t \in Tokens : bot' = WithToken(bot, t)
    /\ overtaken' = FALSE
    /\ UNCHANGED <<verifier, channelVars>>
SetBotStatus ==
    /\ bot # NoBot /\ Edited
    /\ \E active \in BOOLEAN : bot' = [bot EXCEPT !.active = active]
    /\ UNCHANGED <<verifier, overtaken, channelVars>>
\* A verification under way finds no row to mark.
DeleteBot ==
    /\ bot # NoBot /\ Edited
    /\ bot' = NoBot /\ overtaken' = FALSE
    /\ verifier' = [v \in Verifiers |-> [pc |-> "idle", token |-> None]]
    /\ UNCHANGED channelVars

\* verify_telegram_bot reads the token, asks Telegram, and marks the bot it read
\* it from, whatever its token is by then.
ReadToken(v) ==
    /\ verifier[v].pc = "idle" /\ bot # NoBot
    /\ verifier' = [verifier EXCEPT ![v] = [pc |-> "asked", token |-> bot.token]]
    /\ UNCHANGED <<bot, overtaken, edits, channelVars>>
\* A request fails although the token is good.
MarkVerification(v) ==
    LET t == verifier[v].token
    IN /\ verifier[v].pc = "asked"
       /\ verifier' = [verifier EXCEPT ![v].pc = "idle"]
       /\ \/ t \in Good /\ bot' = [bot EXCEPT !.verification = "verified", !.username = t]
          \/ bot' = [bot EXCEPT !.verification = "failed"]
       /\ overtaken' = (bot.token # t)
       /\ UNCHANGED <<edits, channelVars>>

\* The user creates, renames, deactivates or deletes an in-app channel; the
\* unique index of the active default is respected.
ActiveChannels(chan) == {c \in Channels : chan[c].state = "active"}
DefaultOf(chan) == {c \in ActiveChannels(chan) : chan[c].default}
Offer(chan) == [r \in Resolvers |->
    IF resolver[r].pc \in {"idle", "done", "failed"} THEN offered[r]
    ELSE [channels |-> offered[r].channels \cup ActiveChannels(chan),
          taken |-> offered[r].taken \/ ~(DefaultOf(channel) \subseteq DefaultOf(chan))]]
EditChannel ==
    /\ Edited
    /\ \E c \in Channels, state \in {"none", "active", "inactive"}, default \in BOOLEAN :
         /\ channel[c] # NoChannel \/ \A d \in Channels : channel[d] # NoChannel => d < c
         /\ channel' = [channel EXCEPT ![c] =
                          IF state = "none" THEN NoChannel ELSE [state |-> state, default |-> default]]
         /\ Cardinality(DefaultOf(channel')) <= 1
         /\ offered' = Offer(channel')
    /\ UNCHANGED <<resolver, botVars>>

Oldest(set) == CHOOSE c \in set : \A d \in set : c <= d
Found(r, set) ==
    resolver' = [resolver EXCEPT ![r] = [pc |-> "done", found |-> Oldest(set)]]

\* get_or_create_default_in_app_channel: a look, an insert that conflicts with the
\* unique index, and another look.
Look(r) ==
    /\ resolver[r].pc = "idle"
    /\ IF ActiveChannels(channel) # {}
       THEN Found(r, ActiveChannels(channel))
       ELSE resolver' = [resolver EXCEPT ![r].pc = "insert"]
    /\ offered' = [offered EXCEPT ![r].channels = ActiveChannels(channel)]
    /\ UNCHANGED <<channel, edits, botVars>>

Conflicts == DefaultOf(channel) # {}
Unused == {c \in Channels : \A d \in Channels : d >= c => channel[d] = NoChannel}
InsertDefault(r) ==
    /\ resolver[r].pc = "insert"
    /\ IF Conflicts
       THEN resolver' = [resolver EXCEPT ![r].pc = "reread"] /\ UNCHANGED <<channel, offered>>
       ELSE /\ Unused # {}
            /\ channel' = [channel EXCEPT ![Oldest(Unused)] = [state |-> "active", default |-> TRUE]]
            /\ Found(r, {Oldest(Unused)})
            /\ offered' = [Offer(channel') EXCEPT ![r].channels = @ \cup ActiveChannels(channel')]
    /\ UNCHANGED <<edits, botVars>>

RereadDefault == DefaultOf(channel)
Reread(r) ==
    /\ resolver[r].pc = "reread"
    /\ IF RereadDefault # {} THEN Found(r, RereadDefault)
       ELSE resolver' = [resolver EXCEPT ![r].pc = "failed"]
    /\ UNCHANGED <<channel, offered, edits, botVars>>

Next ==
    \/ CreateBot \/ ReplaceToken \/ SetBotStatus \/ DeleteBot \/ EditChannel
    \/ \E v \in Verifiers : ReadToken(v) \/ MarkVerification(v)
    \/ \E r \in Resolvers : Look(r) \/ InsertDefault(r) \/ Reread(r)

Spec == Init /\ [][Next]_vars

-----------------------------------------------------------------------------
TypeOK ==
    /\ bot.token \in Tokens \cup {None} /\ bot.verification \in {"unverified", "verified", "failed"}
    /\ channel \in [Channels -> [state : {"none", "active", "inactive"}, default : BOOLEAN]]
    /\ \A r \in Resolvers : resolver[r].found \in Channels \cup {None}

\* A verified bot has a token Telegram accepted, and its user name is that token's,
\* unless the token was replaced while it was being verified.
VerifiedTokenIsGood ==
    bot.verification = "verified" /\ ~overtaken =>
        bot.token \in Good /\ bot.username = bot.token

\* A rule without channels finds one that was active while it looked, and fails
\* only where the user took the channel away in between.
DefaultIsFound ==
    \A r \in Resolvers :
      /\ resolver[r].pc = "done" => resolver[r].found \in offered[r].channels
      /\ resolver[r].pc = "failed" => offered[r].taken

\* However many notifiers create it at once, there is one active default channel,
\* and those whose user changes nothing meanwhile agree on it.
OneDefault ==
    /\ Cardinality(DefaultOf(channel)) <= 1
    /\ edits = 0 => \A q, r \in Resolvers :
         resolver[q].pc = "done" /\ resolver[r].pc = "done" => resolver[q].found = resolver[r].found
=============================================================================
