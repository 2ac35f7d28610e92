--------------------------- MODULE ProviderAnswers ---------------------------
(***************************************************************************)
(* What the senders make of the answers of Telegram and of webhooks, each  *)
(* exchange on its own: the outcome that NotificationOutbox chooses freely *)
(* when it sends is decided here, from what the provider did.              *)
(***************************************************************************)
EXTENDS Naturals

CONSTANT None       \* no answer: refused connections, timeouts, a bad proxy

VARIABLE exchange   \* the request, whether the provider did it, its answer

\* The prefix of a body that is read: is it JSON, is "ok" true, is there an id of
\* a message in "result"?
Bodies == {b \in [json : BOOLEAN, ok : BOOLEAN, id : BOOLEAN] : b.ok \/ b.id => b.json}
Cut == [json |-> FALSE, ok |-> FALSE, id |-> FALSE]
Codes == {200, 204, 302, 400, 403, 404, 408, 429, 500, 503}
Answers == [code : Codes, body : Bodies] \cup {None}

InSuccess(code) == code \in 200..299
Retryable(code) == code \in {408, 429} \cup 500..599

\* Telegram and webhooks by their documents, and what lies between: an answer may
\* be lost, cut off or replaced by that of a gateway.
Whole(request, answer) ==
    answer # None /\ InSuccess(answer.code) /\
    CASE request = "sendMessage" -> answer.body.ok /\ answer.body.id
      [] request = "getMe" -> answer.body.ok
      [] request = "webhook" -> TRUE
Disturbed(answer) ==
    \/ answer = None
    \/ answer.code \in {408, 500, 503}
    \/ InSuccess(answer.code) /\ answer.body = Cut

\* ready: the config parses, the bot is active and the secret is there.
Possible(e) ==
    /\ e.done => e.ready /\ (Whole(e.request, e.answer) \/ Disturbed(e.answer))
    /\ ~e.done => ~Whole(e.request, e.answer)
    /\ ~e.ready => e.answer = None /\ e.request # "getMe"
Init == exchange \in {e \in [request : {"sendMessage", "getMe", "webhook"}, ready : BOOLEAN,
                             done : BOOLEAN, answer : Answers] : Possible(e)}

ByCode(code) == IF Retryable(code) THEN "transient" ELSE "permanent"

\* classify_webhook_response
WebhookOutcome(answer) == IF InSuccess(answer.code) THEN "sent" ELSE ByCode(answer.code)

\* classify_telegram_response
\* A faulty one: what is no success is not tried again.
TelegramOutcomeByBody(answer) ==
    IF InSuccess(answer.code)
    THEN IF answer.body.ok /\ answer.body.id THEN "sent" ELSE "permanent"
    ELSE ByCode(answer.code)
TelegramOutcome(answer) ==
    IF InSuccess(answer.code)
    THEN IF answer.body.ok /\ answer.body.id THEN "sent" ELSE "transient"
    ELSE ByCode(answer.code)

\* classify_telegram_verify_response
VerifyOutcome(answer) ==
    IF InSuccess(answer.code) /\ answer.body.ok THEN "sent" ELSE TelegramOutcome(answer)

\* send_telegram, verify_telegram_bot, send_webhook, after the steps of
\* process_external_channel_delivery that may fail before.
Outcome ==
    LET answer == exchange.answer
    IN CASE ~exchange.ready -> "permanent"
         [] exchange.ready /\ answer = None -> "transient"
         [] exchange.ready /\ answer # None /\ exchange.request = "webhook" -> WebhookOutcome(answer)
         [] exchange.ready /\ answer # None /\ exchange.request = "sendMessage" -> TelegramOutcome(answer)
         [] exchange.ready /\ answer # None /\ exchange.request = "getMe" -> VerifyOutcome(answer)

-----------------------------------------------------------------------------
\* The outcome is one of those NotificationOutbox allows: sent is true, and given up
\* is only what the provider did not do.
OutcomeIsAllowed ==
    /\ Outcome = "sent" => exchange.done
    /\ Outcome = "permanent" => ~exchange.done

\* A success whose answer arrives whole is not asked for again.
SuccessIsSeen ==
    exchange.done /\ Whole(exchange.request, exchange.answer) => Outcome = "sent"
=============================================================================
