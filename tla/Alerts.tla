------------------------------- MODULE Alerts -------------------------------
(***************************************************************************)
(* The notifications: their settings, the low-stock alert that is repeated *)
(* after six hours at most, the daily digest of expiring lots, and the     *)
(* Telegram worker with its bounded queue and its retries.                 *)
(***************************************************************************)
EXTENDS Goroutines

CONSTANTS
    Forms,          \* what the settings page may send
    QueueSize,      \* messages the channel holds (100 in the code)
    MaxRetries,     \* attempts of one message (3 in the code)
    MaxDays         \* bound: days

ASSUME AlertsAssumption ==
    /\ QueueSize \in Nat \ {0}
    /\ MaxRetries \in Nat \ {0}
    /\ MaxDays \in Nat \ {0}

VARIABLES
    settings,       \* the one document of the settings collection
    today,          \* the date
    marked,         \* days whose digest is marked as sent
    lowFresh,       \* is the mark of the low-stock alert under six hours old
    queue,          \* messages in the channel of the server
    sending,        \* what its worker is sending, and the attempt
    displayed,      \* the tokens that pages still open have on display
    lastTyped,      \* history: the last token that somebody typed
    lowSent,        \* history: low-stock alerts of the last six hours
    digests         \* history: digests[d]: of day d, how many were asked for
                    \* with force, handed to the bot and delivered

alerts == <<settings, today, marked, lowFresh, queue, sending, displayed, lastTyped, lowSent, digests>>

(* A token is known by its length; 0 is none, and -n stands for the masked *)
(* text of a token of length n.                                            *)
Settings == [enabled: BOOLEAN, token: Int, chats: BOOLEAN, digest: BOOLEAN, digestChats: BOOLEAN]

(* shown: the token field holds what the page has on display; otherwise it *)
(* holds token, 0 if left blank.  digest: {} when the field is not sent.   *)
Form == [enabled: BOOLEAN, shown: BOOLEAN, token: Nat, chats: BOOLEAN,
         digest: SUBSET BOOLEAN, digestChats: BOOLEAN]

ASSUME FormsAssumption == Forms \subseteq Form

Days == 1 .. MaxDays

(* About: 0 for an event or a low-stock alert, the day for a digest.       *)
Message == 0 .. MaxDays

NotSending == [about |-> 0, attempt |-> 0]

AlertsTypeOK ==
    /\ settings \in Settings
    /\ today \in Days
    /\ marked \subseteq Days
    /\ lowFresh \in BOOLEAN
    /\ queue \in Seq(Message) /\ Len(queue) <= QueueSize
    /\ sending \in [about: Message, attempt: 0 .. MaxRetries]
    /\ displayed \subseteq Int

NoSettings == [enabled |-> FALSE, token |-> 0, chats |-> FALSE, digest |-> FALSE, digestChats |-> FALSE]

AlertsInit ==
    /\ settings = NoSettings
    /\ today = 1
    /\ marked = {}
    /\ lowFresh = FALSE
    /\ queue = <<>>
    /\ sending = NotSending
    /\ displayed = {0}
    /\ lastTyped = 0
    /\ lowSent = 0
    /\ digests = [d \in Days |-> [forced |-> 0, sent |-> 0, delivered |-> 0]]

-----------------------------------------------------------------------------
(* The settings: Get displays the token with stars, the page keeps what it *)
(* was given until it sends it back, Update reads the document and writes  *)
(* all of it.                                                              *)

Shown(token) == IF token > 0 THEN -token ELSE token

(* A page gets the settings: when it is opened, and once it has saved them.*)
DisplaySettings ==
    /\ displayed' = displayed \cup {settings.token}
    /\ UNCHANGED <<settings, today, marked, lowFresh, queue, sending, lastTyped, lowSent, digests>>

(* "****" for a token of up to eight characters, else one star for each    *)
(* character but the first and the last four; Update looks for "***".      *)
LooksMaskedFault(text) == FALSE
LooksMasked(text) == text < 0 /\ -text \notin {9, 10}

(* What a page that was given token sends in the field.                    *)
Typed(form, token) == IF form.shown THEN Shown(token) ELSE form.token

Merged(form, text, existing) ==
    [enabled |-> form.enabled,
     token |-> IF text = 0 \/ LooksMasked(text) THEN existing.token ELSE text,
     chats |-> form.chats,
     digest |-> IF form.digest = {} THEN existing.digest ELSE TRUE \in form.digest,
     digestChats |-> form.digestChats \/ existing.digestChats]

SaveSettings(w, form) ==
    /\ Starts(w)
    /\ \E token \in displayed :
          Enter(w, "writeSettings",
                [kind |-> "settings", doc |-> Merged(form, Typed(form, token), settings),
                 typed |-> IF form.shown THEN 0 ELSE form.token],
                "settings", {"writeSettings"})
    /\ UNCHANGED <<alerts, faults>>

WriteSettings(w) ==
    /\ At(w, "writeSettings")
    /\ settings' = loc[w].doc
    /\ lastTyped' = IF loc[w].typed = 0 THEN lastTyped ELSE loc[w].typed
    /\ Finish(w)
    /\ UNCHANGED <<today, marked, lowFresh, queue, sending, displayed, lowSent, digests, started, faults>>

-----------------------------------------------------------------------------
(* Sending.  Send never blocks: a message that finds the queue full is     *)
(* dropped.                                                                *)

Queued(about) == IF Len(queue) < QueueSize THEN Append(queue, about) ELSE queue

Configured == settings.enabled /\ settings.token # 0 /\ settings.chats

(* Announcements of orders, picks and returns, and the test message.       *)
Announce(w) ==
    /\ Starts(w)
    /\ Configured
    /\ queue' = Queued(0)
    /\ Finish(w)
    /\ UNCHANGED <<settings, today, marked, lowFresh, sending, displayed, lastTyped, lowSent, digests, faults>>

(* The check that follows a shipment, of a product whose stock is low.     *)
CheckLowStock(w) ==
    /\ Starts(w)
    /\ ~lowFresh
    /\ Enter(w, "lowSend", Nothing, "low", {"lowSend", "lowMark"})
    /\ UNCHANGED <<alerts, faults>>

(* Skipped when Telegram is off or its settings cannot be read; the alert  *)
(* is marked as sent even so.                                              *)
SendLowStock(w) ==
    /\ At(w, "lowSend")
    /\ \/ Configured /\ queue' = Queued(0) /\ lowSent' = lowSent + 1 /\ UNCHANGED faults
       \/ ~Configured /\ UNCHANGED <<queue, lowSent, faults>>
       \/ Fails /\ UNCHANGED <<queue, lowSent>>
    /\ Goto(w, "lowMark", Nothing)
    /\ UNCHANGED <<settings, today, marked, lowFresh, sending, displayed, lastTyped, digests, started>>

MarkLowStock(w) ==
    /\ At(w, "lowMark")
    /\ lowFresh' = TRUE
    /\ Finish(w)
    /\ UNCHANGED <<settings, today, marked, queue, sending, displayed, lastTyped, lowSent, digests, started, faults>>

-----------------------------------------------------------------------------
(* The digest of a day, from the API (cli = FALSE) or by the subcommand    *)
(* expiry-digest, a process with a queue of its own.  Telegram itself need *)
(* not be enabled.                                                         *)

AlreadySentFault(day) == FALSE
AlreadySent(day) == day \in marked

RunExpiryDigest(w, cli, force) ==
    /\ Starts(w)
    /\ settings.digest /\ settings.token # 0
    /\ ~force => ~AlreadySent(today)
    /\ settings.digestChats \/ settings.chats
    /\ digests' = [digests EXCEPT ![today].forced = IF force THEN @ + 1 ELSE @]
    /\ Enter(w, "digestSend", [kind |-> "digest", day |-> today, cli |-> cli],
             "digest", {"digestSend", "digestMark"})
    /\ UNCHANGED <<settings, today, marked, lowFresh, queue, sending, displayed, lastTyped, lowSent, faults>>

(* Of a process that ends right after, as many attempts as it has time for *)
(* may get out.                                                            *)
SendDigest(w) ==
    LET day == loc[w].day IN
    /\ At(w, "digestSend")
    /\ \E out \in (IF loc[w].cli THEN 0 .. MaxRetries ELSE {0}) :
          digests' = [digests EXCEPT ![day].sent = @ + 1, ![day].delivered = @ + out]
    /\ queue' = IF loc[w].cli THEN queue ELSE Queued(day)
    /\ Goto(w, "digestMark", loc[w])
    /\ UNCHANGED <<settings, today, marked, lowFresh, sending, displayed, lastTyped, lowSent, started, faults>>

MarkDigest(w) ==
    /\ At(w, "digestMark")
    /\ marked' = marked \cup {loc[w].day}
    /\ Finish(w)
    /\ UNCHANGED <<settings, today, lowFresh, queue, sending, displayed, lastTyped, lowSent, digests, started, faults>>

-----------------------------------------------------------------------------
(* The worker of the server.                                               *)

TakeMessage ==
    /\ sending = NotSending
    /\ queue # <<>>
    /\ sending' = [about |-> Head(queue), attempt |-> 1]
    /\ queue' = Tail(queue)
    /\ UNCHANGED <<settings, today, marked, lowFresh, displayed, lastTyped, lowSent, digests>>

Delivered(about) ==
    IF about = 0 THEN digests ELSE [digests EXCEPT ![about].delivered = @ + 1]

SendingEnds ==
    /\ sending.attempt > 0
    /\ \/ digests' = Delivered(sending.about)
       \/ sending.attempt = MaxRetries /\ digests' = digests
    /\ sending' = NotSending
    /\ UNCHANGED <<settings, today, marked, lowFresh, queue, displayed, lastTyped, lowSent>>

(* An attempt that failed, or whose answer was lost after the delivery.    *)
SendingFails ==
    /\ sending.attempt \in 1 .. MaxRetries - 1
    /\ digests' \in {digests, Delivered(sending.about)}
    /\ sending' = [sending EXCEPT !.attempt = @ + 1]
    /\ UNCHANGED <<settings, today, marked, lowFresh, queue, displayed, lastTyped, lowSent>>

NextDay ==
    /\ today < MaxDays
    /\ today' = today + 1
    /\ UNCHANGED <<settings, marked, lowFresh, queue, sending, displayed, lastTyped, lowSent, digests>>

SixHoursPass ==
    /\ lowFresh
    /\ lowFresh' = FALSE
    /\ lowSent' = 0
    /\ UNCHANGED <<settings, today, marked, queue, sending, displayed, lastTyped, digests>>

Background == DisplaySettings \/ TakeMessage \/ SendingEnds \/ SendingFails \/ NextDay \/ SixHoursPass

(* The server ends, with what it had queued.                               *)
ServerEnds ==
    /\ Fails
    /\ queue' = <<>>
    /\ sending' = NotSending
    /\ UNCHANGED <<settings, today, marked, lowFresh, displayed, lastTyped, lowSent, digests>>

AlertsNext(w) ==
    \/ \E form \in Forms : SaveSettings(w, form)
    \/ WriteSettings(w)
    \/ Announce(w) \/ CheckLowStock(w) \/ SendLowStock(w) \/ MarkLowStock(w)
    \/ \E cli, force \in BOOLEAN : RunExpiryDigest(w, cli, force)
    \/ SendDigest(w) \/ MarkDigest(w)

-----------------------------------------------------------------------------
(* Properties.                                                             *)

(* "6-hour dedup", "already sent today" and maxRetries: unless two checks  *)
(* or runs overlapped or a mark was not written, at most one low-stock     *)
(* alert within six hours and one unforced digest a day go out, and each   *)
(* digest is delivered at most once per attempt, however answers get lost. *)
AlertsAreNotRepeated ==
    /\ lowSent <= 1 \/ faults > 0 \/ "low" \in overlapped
    /\ \A d \in Days :
          /\ digests[d].sent <= digests[d].forced + 1 \/ faults > 0 \/ "digest" \in overlapped
          /\ digests[d].delivered <= MaxRetries * digests[d].sent

(* "If token looks masked, keep existing token": the token is the last one *)
(* that was typed, unless two updates overlapped or a page had a token of  *)
(* nine or ten characters on display, of which too few are masked, and its *)
(* mask is now the token.                                                  *)
TokenIsKept ==
    \/ settings.token = lastTyped
    \/ -settings.token \in displayed \cap {9, 10}
    \/ "settings" \in overlapped

=============================================================================
