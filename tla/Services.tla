------------------------------ MODULE Services ------------------------------
(***************************************************************************)
(* The services around the scans.  One behaviour is about one of them,     *)
(* chosen initially, as its parameters are where there are several; what   *)
(* the modules call alike they share here, and what is another part's      *)
(* stays None.                                                             *)
(***************************************************************************)
EXTENDS Integers, Sequences

\* The parameters of each part, a record, or a set of records.
CONSTANTS
    Custodian,      \* of CustodyAccounts
    Polled,         \* of TelegramBinding: a bot with several pollers
    Hooked,         \* of TelegramBinding: a bot with a poller and a webhook
    Connected,      \* of Realtime
    Rescanned,      \* of EvmRescan, several
    Deployment,     \* of Supervisor
    Woken,          \* of WakeQueue
    Settings,       \* of NotificationConfig
    Relocated,      \* of AddressEdits, several
    Digits,         \* of Amounts
    None

VARIABLES part, setup,
    faults, edits, watched, channel, shutdown,
    account, assignment, assigner,
    request, posts, offset, lock, handler, handled, confirmations,
    posted, listener, wire, socket, received, missed,
    mined, events, call,
    main, service, beat, ticks,
    made, due, list, producer, worker, quiet,
    bot, verifier, resolver, overtaken, offered,
    address, editor, binder, scan, rule, epoch, mixed,
    amounts, exchange

chosen == <<part, setup>>
custody == <<account, assignment, assigner>>
telegram == <<request, posts, offset, lock, handler, handled, confirmations>>
realtime == <<posted, listener, wire, socket, received, missed>>
rescan == <<mined, events, call>>
supervisor == <<main, service, beat, ticks>>
wake == <<made, due, list, producer, worker, quiet>>
config == <<bot, verifier, resolver, overtaken, offered>>
address_ == <<address, editor, binder, scan, rule, epoch, mixed>>
all == <<chosen, faults, edits, watched, channel, shutdown, custody, telegram, realtime,
         rescan, supervisor, wake, config, address_, amounts, exchange>>

Custody == INSTANCE CustodyAccounts WITH
    Assigners <- Custodian.assigners, Addresses <- Custodian.addresses, Refs <- Custodian.refs,
    Configs <- Custodian.configs, Given <- Custodian.given,
    MaxEdits <- Custodian.maxEdits, MaxFaults <- Custodian.maxFaults

\* With the lemmas of its proofs.
Polling == INSTANCE TelegramBindingProofs WITH
    Requests <- Polled.requests, Pollers <- Polled.pollers, Hooks <- Polled.hooks,
    MaxUpdates <- Polled.maxUpdates, MaxFaults <- Polled.maxFaults
Webhook == INSTANCE TelegramBindingProofs WITH
    Requests <- Hooked.requests, Pollers <- Hooked.pollers, Hooks <- Hooked.hooks,
    MaxUpdates <- Hooked.maxUpdates, MaxFaults <- Hooked.maxFaults

Push == INSTANCE Realtime WITH
    Tenants <- Connected.tenants, Sockets <- Connected.sockets, TenantOf <- Connected.tenantOf,
    MaxPosted <- Connected.maxPosted, MaxFaults <- Connected.maxFaults, BufferSize <- Connected.bufferSize

Rescan(k) == INSTANCE EvmRescan WITH
    Rescans <- k.rescans, Addresses <- k.addresses, Native <- k.native, Tokens <- k.tokens,
    From <- k.from, To <- k.to, Value <- k.value, Logs <- k.logs,
    Inclusions <- k.inclusions, MaxEdits <- k.maxEdits, MaxFaults <- k.maxFaults

AllInOne == INSTANCE Supervisor WITH
    Order <- Deployment.order, Server <- Deployment.server, Listener <- Deployment.listener,
    Names <- Deployment.names, Interval <- Deployment.interval,
    StaleAfter <- Deployment.staleAfter, MaxTicks <- Deployment.maxTicks,
    MaxFaults <- Deployment.maxFaults

Wake == INSTANCE WakeQueue WITH
    Workers <- Woken.workers, Producers <- Woken.producers, MaxJobs <- Woken.maxJobs,
    Legacy <- Woken.legacy, MaxFaults <- Woken.maxFaults

Config == INSTANCE NotificationConfig WITH
    Tokens <- Settings.tokens, Good <- Settings.good, Verifiers <- Settings.verifiers,
    Resolvers <- Settings.resolvers, Channels <- Settings.channels, MaxEdits <- Settings.maxEdits

Address(k) == INSTANCE AddressEdits WITH
    Chains <- k.chains, AssetsOf <- k.assetsOf, Editors <- k.editors, Binders <- k.binders,
    Scans <- k.scans, Rules <- k.rules, MaxMoves <- k.maxMoves, MaxFaults <- k.maxFaults

Amount == INSTANCE Amounts WITH Base <- Digits.base, MaxLength <- Digits.maxLength

Answer == INSTANCE ProviderAnswers

ASSUME PartsAssumption ==
    /\ Custody!Assumptions /\ Polling!Assumptions /\ Webhook!Assumptions
    /\ Push!Assumptions /\ AllInOne!Assumptions /\ Wake!Assumptions /\ Config!Assumptions
    /\ Amount!Assumptions
    /\ \A k \in Rescanned : Rescan(k)!Assumptions
    /\ \A k \in Relocated : Address(k)!Assumptions

CustodyIdle == account = None /\ assignment = None /\ assigner = None
TelegramIdle == /\ request = None /\ posts = None /\ offset = None /\ lock = None
                /\ handler = None /\ handled = None /\ confirmations = None
RealtimeIdle == /\ posted = None /\ listener = None /\ wire = None
                /\ socket = None /\ received = None /\ missed = None
RescanIdle == mined = None /\ events = None /\ call = None
SupervisorIdle == main = None /\ service = None /\ beat = None /\ ticks = None
WakeIdle == /\ made = None /\ due = None /\ list = None
            /\ producer = None /\ worker = None /\ quiet = None
ConfigIdle == /\ bot = None /\ verifier = None /\ resolver = None
              /\ overtaken = None /\ offered = None
AddressIdle == /\ address = None /\ editor = None /\ binder = None /\ scan = None
               /\ rule = None /\ epoch = None /\ mixed = None
PureIdle == amounts = None /\ exchange = None

Init ==
    \/ /\ part = "custody" /\ setup = None /\ Custody!Init /\ channel = None /\ shutdown = None
       /\ TelegramIdle /\ RealtimeIdle /\ RescanIdle /\ SupervisorIdle /\ WakeIdle
       /\ ConfigIdle /\ AddressIdle /\ PureIdle
    \/ /\ \/ part = "pollers" /\ Polling!Init
          \/ part = "webhook" /\ Webhook!Init
       /\ setup = None /\ edits = None /\ watched = None /\ channel = None /\ shutdown = None
       /\ CustodyIdle /\ RealtimeIdle /\ RescanIdle /\ SupervisorIdle /\ WakeIdle
       /\ ConfigIdle /\ AddressIdle /\ PureIdle
    \/ /\ part = "realtime" /\ setup = None /\ Push!Init /\ edits = None /\ watched = None
       /\ CustodyIdle /\ TelegramIdle /\ RescanIdle /\ SupervisorIdle /\ WakeIdle
       /\ ConfigIdle /\ AddressIdle /\ PureIdle
    \/ /\ part = "rescan" /\ \E k \in Rescanned : setup = k /\ Rescan(k)!Init
       /\ channel = None /\ shutdown = None
       /\ CustodyIdle /\ TelegramIdle /\ RealtimeIdle /\ SupervisorIdle /\ WakeIdle
       /\ ConfigIdle /\ AddressIdle /\ PureIdle
    \/ /\ part = "supervisor" /\ setup = None /\ AllInOne!Init
       /\ edits = None /\ watched = None /\ channel = None
       /\ CustodyIdle /\ TelegramIdle /\ RealtimeIdle /\ RescanIdle /\ WakeIdle
       /\ ConfigIdle /\ AddressIdle /\ PureIdle
    \/ /\ part = "wake" /\ setup = None /\ Wake!Init
       /\ edits = None /\ watched = None /\ channel = None /\ shutdown = None
       /\ CustodyIdle /\ TelegramIdle /\ RealtimeIdle /\ RescanIdle /\ SupervisorIdle
       /\ ConfigIdle /\ AddressIdle /\ PureIdle
    \/ /\ part = "config" /\ setup = None /\ Config!Init
       /\ faults = None /\ watched = None /\ shutdown = None
       /\ CustodyIdle /\ TelegramIdle /\ RealtimeIdle /\ RescanIdle /\ SupervisorIdle
       /\ WakeIdle /\ AddressIdle /\ PureIdle
    \/ /\ part = "address" /\ \E k \in Relocated : setup = k /\ Address(k)!Init
       /\ edits = None /\ watched = None /\ channel = None /\ shutdown = None
       /\ CustodyIdle /\ TelegramIdle /\ RealtimeIdle /\ RescanIdle /\ SupervisorIdle
       /\ WakeIdle /\ ConfigIdle /\ PureIdle
    \/ /\ setup = None
       /\ \/ part = "amounts" /\ Amount!Init /\ exchange = None
          \/ part = "answers" /\ Answer!Init /\ amounts = None
       /\ faults = None /\ edits = None /\ watched = None /\ channel = None /\ shutdown = None
       /\ CustodyIdle /\ TelegramIdle /\ RealtimeIdle /\ RescanIdle /\ SupervisorIdle
       /\ WakeIdle /\ ConfigIdle /\ AddressIdle

CustodyRest == UNCHANGED <<chosen, channel, shutdown, telegram, realtime, rescan,
                           supervisor, wake, config, address_, amounts, exchange>>
TelegramRest == UNCHANGED <<chosen, edits, watched, channel, shutdown, custody, realtime, rescan,
                            supervisor, wake, config, address_, amounts, exchange>>
RealtimeRest == UNCHANGED <<chosen, edits, watched, custody, telegram, rescan,
                            supervisor, wake, config, address_, amounts, exchange>>
RescanRest == UNCHANGED <<chosen, channel, shutdown, custody, telegram, realtime,
                          supervisor, wake, config, address_, amounts, exchange>>
SupervisorRest == UNCHANGED <<chosen, edits, watched, channel, custody, telegram, realtime, rescan,
                              wake, config, address_, amounts, exchange>>
WakeRest == UNCHANGED <<chosen, edits, watched, channel, shutdown, custody, telegram, realtime,
                        rescan, supervisor, config, address_, amounts, exchange>>
ConfigRest == UNCHANGED <<chosen, faults, watched, shutdown, custody, telegram, realtime, rescan,
                          supervisor, wake, address_, amounts, exchange>>
AddressRest == UNCHANGED <<chosen, edits, watched, channel, shutdown, custody, telegram, realtime,
                           rescan, supervisor, wake, config, amounts, exchange>>

Next ==
    \/ part = "custody" /\ Custody!Next /\ CustodyRest
    \/ part = "pollers" /\ Polling!Next /\ TelegramRest
    \/ part = "webhook" /\ Webhook!Next /\ TelegramRest
    \/ part = "realtime" /\ Push!Next /\ RealtimeRest
    \/ part = "rescan" /\ RescanRest /\ \E k \in Rescanned : setup = k /\ Rescan(k)!Next
    \/ part = "supervisor" /\ AllInOne!Next /\ SupervisorRest
    \/ part = "wake" /\ Wake!Next /\ WakeRest
    \/ part = "config" /\ Config!Next /\ ConfigRest
    \/ part = "address" /\ AddressRest /\ \E k \in Relocated : setup = k /\ Address(k)!Next

Spec == Init /\ [][Next]_all

-----------------------------------------------------------------------------
\* The types of each part, of the part the behaviour is about.
TypesOK ==
    /\ part = "custody" => Custody!TypeOK
    /\ part = "pollers" => Polling!TypeOK
    /\ part = "webhook" => Webhook!TypeOK
    /\ part = "realtime" => Push!TypeOK
    /\ \A k \in Rescanned : part = "rescan" /\ setup = k => Rescan(k)!TypeOK
    /\ part = "supervisor" => AllInOne!TypeOK
    /\ part = "wake" => Wake!TypeOK
    /\ part = "config" => Config!TypeOK
    /\ \A k \in Relocated : part = "address" /\ setup = k => Address(k)!TypeOK

\* assign_custody_account and release_custody_assignment, retried or raced, give an
\* account to one business reference at a time, offer exactly the accounts that
\* serve none, and leave a reference with its account until it is released for
\* good; a committed assignment has its address watched on every configured
\* chain, but for what the user undid.
CustodyIsExclusive ==
    /\ [](part = "custody" => Custody!PoolIsHonest)
    /\ [][part = "custody" => /\ \A r \in Custodian.refs : Custody!AssignedOnce(r)
                              /\ \A t \in Custodian.assigners : Custody!WatchedAtCommit(t)]_all

\* upsert_telegram_update_offset passes no update that was not processed, and
\* process_telegram_binding_update confirms a request to one chat, once, the one it
\* is bound to: whichever pollers overlap with each other or the webhook, or end
\* between a binding and their offset.
UpdatesBindOnce ==
    /\ part = "pollers" => Polling!UpdatesBindOnce
    /\ part = "webhook" => Webhook!UpdatesBindOnce

\* websocket_connection sends a socket the notifications of its tenant, in order and
\* once; it lacks only what a lag or the disconnected listener lost.
SocketStory == part = "realtime" => Push!SocketStory

\* rescan_evm_transaction, beside other rescans and scans, makes one event of each
\* log and address and of the sender's value or fee, none of a transaction of one
\* inclusion and a receipt of another, and when it answers none of its inclusion
\* is missing.
RescanTellsTheChain ==
    /\ [](\A k \in Rescanned :
            part = "rescan" /\ setup = k => Rescan(k)!EventsAreReal /\ Rescan(k)!OneEventEach)
    /\ [][\A k \in Rescanned :
            part = "rescan" /\ setup = k => \A r \in k.rescans : Rescan(k)!RescanIsComplete(r)]_all

\* main of all-in-one awaits every service and heartbeat and returns the error that
\* made it shut down, if there was one; a running service is shown as stale only
\* if the waits of run_service_heartbeat, one and one more for each failed write,
\* and the time its writes took exceed SERVICE_HEARTBEAT_STALE_SECONDS.
ShutdownIsComplete ==
    part = "supervisor" => /\ AllInOne!ResultIsTrue
                           /\ AllInOne!NothingIsCutOff
                           /\ AllInOne!StaleMeansMissedWrites

\* run_worker does not wait for a signal while a signalled job is due, unless a
\* signal is on its way, although SIGNAL_SCRIPT keeps one in the list at most.
NobodySleepsThroughAJob ==
    part = "wake" => Wake!OneSignalAtMost /\ Wake!NobodySleepsThroughAJob

\* A bot that is verified has a token Telegram accepted and that token's user name,
\* unless update_telegram_bot replaced it between the two statements of a
\* verification; concurrent calls of get_or_create_default_in_app_channel agree on
\* one channel, which was active while they ran, whoever edits it.
SettingsAreUsable ==
    part = "config" => /\ Config!VerifiedTokenIsGood
                       /\ Config!DefaultIsFound
                       /\ Config!OneDefault

\* update_watched_address leaves an address with assets of its own chain, whichever
\* scans, assignments and failures come in between; a scan looks for the assets of
\* another chain only if the address moved between its two statements, and
\* validate_notification_rule_references accepts a rule about an address only if
\* an event of the chain the address is on can match it.
AddressIsOfOneChain ==
    \A k \in Relocated :
      part = "address" /\ setup = k =>
        Address(k)!SelectionBelongs /\ Address(k)!ScanIsOfOneChain /\ Address(k)!RuleCanMatch

\* amount_raw_meets_minimum compares as numbers what it is given as strings, and
\* wei_to_decimal_string and raw_to_decimal_string are exact.
AmountsAreNumbers == part = "amounts" => Amount!MinimumIsNumeric /\ Amount!DecimalIsExact

\* classify_telegram_response, classify_telegram_verify_response and
\* classify_webhook_response say sent only of what was done, give up only what was
\* not, the outcomes NotificationOutbox!Send allows, and see every success whose
\* answer arrives, so that it is not sent again.
AnswersAreUnderstood == part = "answers" => Answer!OutcomeIsAllowed /\ Answer!SuccessIsSeen
=============================================================================
