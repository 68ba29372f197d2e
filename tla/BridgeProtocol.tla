--------------------------- MODULE BridgeProtocol ---------------------------
(***************************************************************************)
(* What a command goes through on its way into the AutoTrader: the builders *)
(* and the validator of open_crypto_signal_engine/protocol/bridge.py, the   *)
(* clients of both scanners (bridge_client.py), the server's checks in      *)
(* their order (bridge_server.py) and the executor's own (models.py).       *)
(*                                                                         *)
(* A number that is missing, not finite or not above zero is 0; a text is   *)
(* its length, where only that counts.  The clocks of the two hosts differ. *)
(***************************************************************************)
EXTENDS Integers

CONSTANTS
  Raws,        \* what callers hand to a builder or put into a request body
  Skews,       \* the scanner's clock minus the AutoTrader's
  MaxSkew,     \* DEFAULT_MAX_SKEW_SEC, in the unit of the clock
  MaxAhead,    \* source_ts may be as much in the future: 300 s
  Horizon      \* bound: the clock

Invalid == [event |-> "invalid"]
Separated == {"plain", "separated", "doubled"}   \* spellings of a symbol that are mended
MaxIdentifier == 128

VARIABLES
  clock,     \* of the AutoTrader
  skew, raw, client,
  written,   \* the command waits in the outbox of V2.5, or with another sender
  body,      \* what is posted
  signed,    \* X-Bridge-Timestamp
  sent,      \* when it was posted, or 0
  way,       \* history: how long it was under way
  handed,    \* what the executor was given last
  status     \* of the last answer, or 0

setting == <<skew, raw, client>>
letter == <<written, body, signed>>
answer == <<way, handed, status>>
vars == <<clock, setting, letter, sent, answer>>

-----------------------------------------------------------------------------
(* bridge.py: a raw command is a record [event, action, id, signal, symbol, side, levels,  *)
(* source, expires, new_sl, smart]; new_sl is -1 where there is none, levels a record of   *)
(* seven prices, low and high 0 where they are left to the entry.                          *)

NormalizeSide(side) == IF side = "short" THEN "SHORT" ELSE IF side = "long" THEN "LONG" ELSE side
IsSide(side) == NormalizeSide(side) \in {"LONG", "SHORT"}

IsSymbol(symbol) == symbol \in Separated
NormalizeSymbol(symbol) == IF IsSymbol(symbol) THEN "plain" ELSE symbol

Identifier(length) == length \in 1..MaxIdentifier

\* The stop on one side of the entry, the targets in order on the other.
Ordered(side, l) ==
  LET Before(a, b) == IF NormalizeSide(side) = "LONG" THEN a < b ELSE a > b
      NotAfter(a, b) == a = b \/ Before(a, b)
  IN Before(l.sl, l.entry) /\ Before(l.entry, l.tp1) /\ NotAfter(l.tp1, l.tp2) /\ NotAfter(l.tp2, l.tp3)

Positive(l) == \A name \in DOMAIN l : l[name] > 0

SourceTimesValid(source, expires, now) ==
  /\ source > 0 => source <= now + MaxAhead
  /\ source > 0 /\ expires > 0 => expires >= source

BuildExecute(r, now) ==
  IF /\ IsSide(r.side) /\ Positive(r.levels) /\ r.levels.low <= r.levels.high
     /\ Ordered(r.side, r.levels)
     /\ SourceTimesValid(r.source, r.expires, now)
     /\ Identifier(r.signal) /\ IsSymbol(r.symbol)
  THEN [r EXCEPT !.event = "EXECUTE", !.side = NormalizeSide(@), !.symbol = NormalizeSymbol(@)]
  ELSE Invalid

BuildManagement(r, now) ==
  IF /\ r.action # ""
     /\ SourceTimesValid(r.source, 0, now)
     /\ Identifier(r.id) /\ Identifier(r.signal) /\ IsSymbol(r.symbol)
     /\ r.new_sl # 0
  THEN [r EXCEPT !.event = "MANAGEMENT", !.symbol = NormalizeSymbol(@)]
  ELSE Invalid

Aliases == {"PROTECT", "MOVE_SL", "CLOSE", "INVALIDATED", "CLOSE_EARLY"}

\* validate_event_payload: an event that is missing is EXECUTE, a window that is missing
\* the entry; a shorthand is the action of a MANAGEMENT that names none.
WithWindow(r) ==
  [r EXCEPT !.levels.low = IF @ = 0 THEN r.levels.entry ELSE @,
            !.levels.high = IF @ = 0 THEN r.levels.entry ELSE @]
EventIsAction(r) ==                                      \* mutant
  IF r.event \in Aliases THEN [r EXCEPT !.action = r.event] ELSE r
WithAction(r) ==
  IF r.action = "" /\ r.event \in Aliases THEN [r EXCEPT !.action = r.event] ELSE r
Validate(r, now) ==
  CASE r.event \in {"", "EXECUTE"} -> BuildExecute(WithWindow(r), now)
    [] r.event \in {"MANAGEMENT"} \cup Aliases -> BuildManagement(WithAction(r), now)
    [] OTHER -> Invalid

\* models.py: from_payload of an event the validator let through.
Parses(r) == r.event = "EXECUTE" => r.smart \in 0..100

-----------------------------------------------------------------------------
(* The clients. *)

ScannerClock == clock + skew

\* Scanner V2.6 builds the command anew for every post, with the time of the post.
RebuiltByV26(r) ==
  LET dated == [r EXCEPT !.source = ScannerClock, !.smart = 0]
  IN IF r.event = "EXECUTE" THEN BuildExecute(dated, ScannerClock)
     ELSE BuildManagement(dated, ScannerClock)

\* _bridge_event_id of V2.5: an id that would be too long is cut and hashed.
BridgeEventId(length) == IF length <= MaxIdentifier THEN length ELSE 48 + 1 + 64

Init ==
  /\ clock = 1 /\ skew \in Skews
  /\ raw \in Raws /\ client \in {"v26", "v25", "external"}
  /\ written = FALSE /\ body = Invalid
  /\ signed = 0 /\ sent = 0 /\ way = 0 /\ handed = Invalid /\ status = 0

Tick ==
  /\ clock < Horizon /\ clock' = clock + 1
  /\ UNCHANGED <<setting, letter, sent, answer>>

\* execute_payload, management_payload of V2.5 put a payload into the outbox as it is; so
\* does whoever else has the secret.
Write ==
  /\ client # "v26" /\ ~written /\ written' = TRUE
  /\ body' = IF client = "v25"
               THEN [raw EXCEPT !.source = ScannerClock, !.id = BridgeEventId(@)] ELSE raw
  /\ UNCHANGED <<clock, setting, signed, sent, answer>>

\* send: signed with the time of the post, over the bytes that are posted.
SignedWhenWritten == IF written THEN body.source ELSE ScannerClock          \* mutant
SigningTime == ScannerClock

Post ==
  /\ sent = 0 /\ status # 200
  /\ IF client = "v26"
       THEN body' = RebuiltByV26(raw) /\ body' # Invalid          \* else it raised
       ELSE written /\ UNCHANGED body
  /\ signed' = SigningTime /\ sent' = clock
  /\ UNCHANGED <<clock, setting, written, answer>>

-----------------------------------------------------------------------------
(* BridgeServer.signal *)

Unauthorized == clock - signed \notin -MaxSkew..MaxSkew
Accepted == Validate(body, clock) # Invalid /\ Parses(Validate(body, clock))

Arrive ==
  /\ sent # 0 /\ sent' = 0 /\ way' = clock - sent
  /\ \/ Unauthorized /\ status' = 401 /\ UNCHANGED handed
     \/ ~Unauthorized /\ ~Accepted /\ status' = 422 /\ UNCHANGED handed
     \/ ~Unauthorized /\ Accepted /\ status' = 200 /\ handed' = Validate(body, clock)
  /\ UNCHANGED <<clock, setting, letter>>

\* The connection fails or times out: the same command is posted again.
Lost ==
  /\ sent # 0 /\ sent' = 0
  /\ UNCHANGED <<clock, setting, letter, answer>>

Next == Tick \/ Write \/ Post \/ Arrive \/ Lost
Spec == Init /\ [][Next]_vars

-----------------------------------------------------------------------------
(* Properties *)

\* What V2.5 put into its outbox was a command by the clock of that moment.
WasSound == Validate(body, body.source) # Invalid /\ Parses(Validate(body, body.source))

\* However long a command of a scanner waited for the bridge, it is turned down only for
\* the time it was under way and the difference of the clocks, or for what it was at first
\* (bridge.py verify_bridge_signature, _validate_source_times; the outbox of V2.5 keeps
\* commands for hours).
AgeIsHarmless ==
  /\ status = 401 => way - skew \notin -MaxSkew..MaxSkew
  /\ status = 422 => client = "external" \/ (client = "v25" /\ ~WasSound)

\* docs/bridge-protocol.md:32 and 46: what reaches the executor has finite positive levels
\* in order, and is the command the sender wrote: of his signal, a shorthand of the v1
\* clients as the MANAGEMENT action it stands for.  Validating what the builders of V2.6
\* made changes nothing.
HandedAsMeant ==
  handed # Invalid =>
    /\ handed.signal = raw.signal
    /\ handed.event = "EXECUTE" <=> raw.event \in {"", "EXECUTE"}
    /\ handed.event = "EXECUTE" =>
         /\ 0 < handed.levels.low /\ handed.levels.low <= handed.levels.high
         /\ IF handed.side = "LONG"
              THEN handed.levels.sl < handed.levels.entry /\ handed.levels.entry < handed.levels.tp3
              ELSE handed.levels.sl > handed.levels.entry /\ handed.levels.entry > handed.levels.tp3
    /\ handed.event = "MANAGEMENT" =>
         handed.action = IF raw.action # "" THEN raw.action ELSE raw.event
    /\ client = "v26" => handed = body
=============================================================================
