------------------------------ MODULE PairScreen ------------------------------
(***************************************************************************)
(* The screens that start a pairing: app/(auth)/pair.tsx and connect.tsx   *)
(* of the app, with hooks/usePairing.ts and lib/pairing.ts.                *)
(*                                                                         *)
(* A handler sees the state as it was when the screen was last drawn.  The *)
(* camera reports codes at any time, also before the screen is drawn again *)
(* with what the last report changed; what a press or the keyboard changes *)
(* is drawn before the next event.  What relaySessionManager.pair() does   *)
(* is MobileSession's affair: here a call of it is under way, and settles. *)
(***************************************************************************)
EXTENDS Naturals

CONSTANTS
    Payload,   \* texts, scanned or pasted
    Valid,     \* those that parsePairingQrPayload() accepts
    Blank,     \* no text, no code scanned yet
    MaxCalls   \* bound on the calls of pair() under way at once

ASSUME PairScreenAssumption ==
    Valid \subseteq Payload /\ Blank \notin Payload /\ MaxCalls \in Nat

VARIABLES
    screen,       \* "connect", "pair" or "main"
    isSubmitting, isScanning, qrPayload, error, \* state of the pair screen
    shown,        \* what the handlers see of it: see Drawn
    lastScanned,  \* lastScannedPayloadRef.current
    calls,        \* calls of pair() under way that this pair screen made
    oldCalls,     \* and those that a pair screen made which was left
    raced         \* history: a handler acted on a state that was out of date

formVars == <<isSubmitting, isScanning, qrPayload, error>>
pairVars == <<screen, formVars, shown, lastScanned, calls, oldCalls, raced>>

Drawn == [submitting |-> isSubmitting, scanning |-> isScanning, text |-> qrPayload]

PairInit ==
    /\ screen = "connect"
    /\ isSubmitting = FALSE /\ isScanning = TRUE /\ qrPayload = Blank /\ error = FALSE
    /\ shown = Drawn /\ lastScanned = Blank
    /\ calls = 0 /\ oldCalls = 0 /\ raced = FALSE

\* The link to the pair screen makes a new one.
EnterPair ==
    /\ screen = "connect" /\ screen' = "pair"
    /\ isSubmitting' = FALSE /\ isScanning' = TRUE /\ qrPayload' = Blank /\ error' = FALSE
    /\ shown' = Drawn' /\ lastScanned' = Blank
    /\ raced' = FALSE
    /\ UNCHANGED <<calls, oldCalls>>

\* router.back(): a call that is under way goes on.
LeavePair ==
    /\ screen = "pair" /\ screen' = "connect"
    /\ oldCalls' = oldCalls + calls /\ calls' = 0
    /\ UNCHANGED <<formVars, shown, lastScanned, raced>>

\* submitPairing() up to its first await on pair(): a text that is refused, or
\* has expired, ends it at once.
Submit(p) ==
    \/ /\ p \in Valid /\ calls + oldCalls < MaxCalls
       /\ isSubmitting' = TRUE /\ error' = FALSE
       /\ calls' = calls + 1
    \/ isSubmitting' = FALSE /\ error' = TRUE /\ UNCHANGED calls

\* Mutant: a code that stays in view is told by the state, not by the ref.
ReadsByState(p) == ~shown.submitting /\ shown.scanning /\ p # shown.text

\* The guard of handleBarcodeScanned().  The ref is never out of date.
Reads(p) == ~shown.submitting /\ shown.scanning /\ p # lastScanned

\* handleBarcodeScanned()
Scan(p) ==
    /\ screen = "pair" /\ Reads(p)
    /\ lastScanned' = p /\ qrPayload' = p /\ isScanning' = FALSE
    /\ Submit(p)
    /\ raced' = (raced \/ (shown # Drawn /\ p # lastScanned))
    /\ UNCHANGED <<screen, shown, oldCalls>>

\* The button: handlePairFromPayload() of the text that is shown.
PressPair ==
    /\ screen = "pair" /\ shown.text # Blank /\ ~shown.submitting
    /\ Submit(shown.text)
    /\ raced' = (raced \/ shown # Drawn)
    /\ UNCHANGED <<screen, isScanning, qrPayload, lastScanned, oldCalls>>
    /\ shown' = Drawn'

EditText(p) ==
    /\ screen = "pair"
    /\ qrPayload' = p
    /\ UNCHANGED <<screen, isSubmitting, isScanning, error, lastScanned, calls, oldCalls, raced>>
    /\ shown' = Drawn'

\* handleRescan(): "Scan Again" is there as soon as a code was scanned.
Rescan ==
    /\ screen = "pair" /\ ~shown.scanning
    /\ lastScanned' = Blank /\ error' = FALSE /\ isScanning' = TRUE
    /\ UNCHANGED <<screen, isSubmitting, qrPayload, calls, oldCalls, raced>>
    /\ shown' = Drawn'

Draw ==
    /\ screen = "pair" /\ shown # Drawn
    /\ shown' = Drawn
    /\ UNCHANGED <<screen, formVars, lastScanned, calls, oldCalls, raced>>

\* A call of the screen settles: router.replace("/(main)"), or an error.
Paired ==
    /\ calls > 0 /\ screen = "pair"
    /\ screen' = "main" /\ calls' = calls - 1 /\ isSubmitting' = FALSE
    /\ UNCHANGED <<isScanning, qrPayload, error, shown, lastScanned, oldCalls, raced>>

PairingFailed ==
    /\ calls > 0 /\ screen = "pair"
    /\ calls' = calls - 1 /\ isSubmitting' = FALSE /\ error' = TRUE
    /\ UNCHANGED <<screen, isScanning, qrPayload, shown, lastScanned, oldCalls, raced>>

\* A call of a screen that is gone settles; it leads to the main screen all the
\* same, and its error is not shown.
OldCallSettles ==
    /\ \/ oldCalls > 0 /\ oldCalls' = oldCalls - 1 /\ UNCHANGED calls
       \/ screen = "main" /\ calls > 0 /\ calls' = calls - 1 /\ UNCHANGED oldCalls
    /\ screen' \in {screen, "main"}
    /\ UNCHANGED <<formVars, shown, lastScanned, raced>>

\* A code typed on the connect screen never pairs: pairManually() always throws.
PairNext ==
    \/ EnterPair \/ LeavePair \/ PressPair \/ Rescan \/ Draw
    \/ Paired \/ PairingFailed \/ OldCallSettles
    \/ \E p \in Payload : Scan(p) \/ EditText(p)

PairSpec == PairInit /\ [][PairNext]_pairVars

-----------------------------------------------------------------------------
(* Correctness.                                                            *)

PairScreenTypeOK ==
    /\ screen \in {"connect", "pair", "main"}
    /\ isSubmitting \in BOOLEAN /\ isScanning \in BOOLEAN /\ error \in BOOLEAN
    /\ qrPayload \in Payload \cup {Blank} /\ lastScanned \in Payload \cup {Blank}
    /\ shown \in [submitting : BOOLEAN, scanning : BOOLEAN, text : Payload \cup {Blank}]
    /\ calls \in Nat /\ oldCalls \in Nat
    /\ raced \in BOOLEAN

\* A pair screen has one pair() under way at a time, and shows that it has, as
\* long as the camera does not report a second code, and nobody presses the
\* button, before the screen is drawn with what the first code changed.  The
\* one code that stays in view is submitted once, however often it is reported.
\* Leaving the screen starts over: pair() may then overlap (pair.tsx:17-51).
OneSubmissionAtATime ==
    screen = "pair" /\ ~raced =>
        /\ calls <= 1
        /\ isSubmitting <=> calls = 1
        /\ isSubmitting => ~error
===============================================================================
