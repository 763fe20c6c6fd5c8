----------------------------- MODULE SessionCrypto -----------------------------
(***************************************************************************)
(* How the bridge and the app come to the keys of a session, and what they *)
(* seal and open with them: packages/shared/src/crypto of the bridge,      *)
(* apps/mobile/lib/crypto-client.ts of the app, and the session code that  *)
(* both salt their keys with.                                              *)
(*                                                                         *)
(* The algorithms are the libraries': X25519 makes one secret of two keys  *)
(* from either side, HKDF makes one pair of keys of a secret and a salt,   *)
(* and GCM opens only what was sealed with the same key.  A key pair is a  *)
(* number; base64url text stands for the bytes it encodes; initialization  *)
(* vectors, which are sent along as they are, are left out.                *)
(***************************************************************************)
EXTENDS Naturals, Sequences, FiniteSets

CONSTANTS
    CodeName,   \* session codes, in capitals
    Text,       \* what is sealed: sequences of bytes
    Unset,      \* no keys yet, nothing opened yet
    Failed,     \* opening was refused
    MaxKeys,    \* bound on the key pairs that are generated
    MaxSealed   \* bound on the messages under way

ASSUME CryptoAssumption ==
    /\ Text \subseteq Seq(Nat) /\ Failed \notin Text
    /\ MaxKeys \in Nat /\ MaxSealed \in Nat

VARIABLES
    code,        \* the bridge's sessionId
    bridgeKey,   \* its X25519 key pair, or Unset: no bridge runs
    bridgeKeys,  \* its directionalKeys; history: the two key pairs and whether
                 \* the code has small letters (exchange), here and below
    qrCodes,     \* QR codes that were shown, of this bridge and earlier ones
    phone,       \* the app's snapshot, or Unset
    confirms,    \* pair.confirm messages under way
    sealed,      \* encrypted messages under way
    attempt,     \* the last that was opened, and what came of it
    keysMade

cryptoVars == <<code, bridgeKey, bridgeKeys, qrCodes, phone, confirms, sealed, attempt, keysMade>>

-----------------------------------------------------------------------------
(* Session codes.                                                          *)

\* A code as it is typed: with small letters, with blanks around it.
Code == [name : CodeName, small : BOOLEAN, blanks : BOOLEAN]

\* normalizeSessionCode() of the app.
NormalizeSessionCode(c) == [c EXCEPT !.small = FALSE, !.blanks = FALSE]

\* The relay turns the code to upper case, and refuses one with blanks.
MeetsAt(c, d) ==
    /\ ~c.blanks /\ ~d.blanks
    /\ [c EXCEPT !.small = FALSE] = [d EXCEPT !.small = FALSE]

-----------------------------------------------------------------------------
(* Keys.                                                                   *)

\* A public key in its DER wrapping, which names the algorithm.
Der(algorithm, k) == [algorithm |-> algorithm, key |-> k]

\* X25519 of one side's private key and the other's public key.
SharedSecret(own, theirs) == {own, theirs.key}

\* 64 bytes: two halves.
Hkdf(secret, salt) ==
    [half \in {1, 2} |-> [secret |-> secret, salt |-> salt, half |-> half]]

\* deriveDirectionalKeys() of the bridge.
DeriveDirectionalKeys(secret, sessionId) ==
    LET derived == Hkdf(secret, sessionId)
    IN  [bridgeToClient |-> derived[1], clientToBridge |-> derived[2]]

\* Mutant: the app takes the halves in the order of its own directions.
SplitSwapped(bits) == [bridgeToClient |-> bits[2], clientToBridge |-> bits[1]]

SplitDirectionalKeyBytes(bits) == [bridgeToClient |-> bits[1], clientToBridge |-> bits[2]]

DeriveDirectionalSessionKeys(secret, sessionId) ==
    SplitDirectionalKeyBytes(Hkdf(secret, sessionId))

-----------------------------------------------------------------------------
(* AES-256-GCM.                                                            *)

TagLength == 16
Masked(key, text) == [i \in DOMAIN text |-> [key |-> key, byte |-> text[i]]]
Tag(key, text) == [i \in 1 .. TagLength |-> [key |-> key, text |-> text]]

\* What a decipher makes of a ciphertext and a tag.
Deciphered(key, ciphertext, tag) ==
    LET text == [i \in DOMAIN ciphertext |-> ciphertext[i].byte]
    IN  IF ciphertext = Masked(key, text) /\ tag = Tag(key, text) THEN text ELSE Failed

\* encrypt() and decrypt() of the bridge: the tag is given apart.
Encrypt(text, key) == [ciphertext |-> Masked(key, text), tag |-> Tag(key, text)]
Decrypt(payload, key) == Deciphered(key, payload.ciphertext, payload.tag)

\* Those of the app: its gcm() has the tag at the end of the ciphertext.
EncryptRelayPayload(text, key) ==
    LET encrypted == Masked(key, text) \o Tag(key, text)
        length == Len(encrypted)
    IN  [ciphertext |-> SubSeq(encrypted, 1, length - TagLength),
         tag |-> SubSeq(encrypted, length - TagLength + 1, length)]

DecryptRelayPayload(payload, key) ==
    LET combined == payload.ciphertext \o payload.tag
        length == Len(combined)
    IN  IF length < TagLength THEN Failed
        ELSE Deciphered(key, SubSeq(combined, 1, length - TagLength),
                             SubSeq(combined, length - TagLength + 1, length))

-----------------------------------------------------------------------------
(* The bridge and the app.                                                 *)

CryptoInit ==
    /\ code \in Code
    /\ bridgeKey = Unset /\ bridgeKeys = Unset /\ phone = Unset
    /\ qrCodes = {} /\ confirms = {} /\ sealed = {} /\ attempt = Unset
    /\ keysMade = 0

\* `crc start`, with --session or with a code of generateSessionCode(), and
\* generatePairingInfo().  A bridge that ran before has ended.
StartBridge(c) ==
    /\ keysMade < MaxKeys /\ keysMade' = keysMade + 1
    /\ code' = c
    /\ bridgeKey' = keysMade' /\ bridgeKeys' = Unset
    /\ qrCodes' = qrCodes \cup {[sessionId |-> c, bridgeKeyExchange |-> Der("x25519", keysMade')]}
    /\ UNCHANGED <<phone, confirms, sealed, attempt>>

\* pair() of the app, from any QR code that was shown: parsePairingQrPayload()
\* normalises the code.  A pair.confirm is under way from now on, or is lost.
PairWith(qr) ==
    LET sessionId == NormalizeSessionCode(qr.sessionId)
        secret == SharedSecret(keysMade', qr.bridgeKeyExchange)
    IN  /\ keysMade < MaxKeys /\ keysMade' = keysMade + 1
        /\ phone' = [sessionId |-> sessionId,
                     sessionKeys |-> DeriveDirectionalSessionKeys(secret, sessionId),
                     exchange |-> [bridge |-> qr.bridgeKeyExchange.key, phone |-> keysMade',
                                   small |-> qr.sessionId.small]]
        /\ confirms' = confirms \cup
                {[sessionId |-> sessionId, clientEphemeralKey |-> Der("x25519", keysMade')]}
        /\ UNCHANGED <<code, bridgeKey, bridgeKeys, qrCodes, sealed, attempt>>

\* completePairing() of the bridge, with the code as it was given.  That it
\* awaits the derivation is MessageRouter's affair: here it is one step.
CompletePairing(m) ==
    /\ m \in confirms /\ confirms' = confirms \ {m}
    /\ bridgeKey # Unset /\ MeetsAt(code, m.sessionId)
    /\ bridgeKeys' = [keys |-> DeriveDirectionalKeys(
                                  SharedSecret(bridgeKey, m.clientEphemeralKey), code),
                      exchange |-> [bridge |-> bridgeKey, phone |-> m.clientEphemeralKey.key,
                                   small |-> code.small]]
    /\ UNCHANGED <<code, bridgeKey, qrCodes, phone, sealed, attempt, keysMade>>

LosesConfirm(m) ==
    /\ m \in confirms /\ confirms' = confirms \ {m}
    /\ UNCHANGED <<code, bridgeKey, bridgeKeys, qrCodes, phone, sealed, attempt, keysMade>>

\* disconnect() of the app forgets the session.
ForgetSession ==
    /\ phone # Unset /\ phone' = Unset
    /\ UNCHANGED <<code, bridgeKey, bridgeKeys, qrCodes, confirms, sealed, attempt, keysMade>>

Seal(from, sessionId, payload, text, exchange) ==
    /\ Cardinality(sealed) < MaxSealed
    /\ sealed' = sealed \cup {[from |-> from, sessionId |-> sessionId, payload |-> payload,
                               text |-> text, exchange |-> exchange]}
    /\ UNCHANGED <<code, bridgeKey, bridgeKeys, qrCodes, phone, confirms, attempt, keysMade>>

\* sendToMobile() of the bridge, once it is paired.
BridgeSeals(text) ==
    /\ bridgeKeys # Unset
    /\ Seal("bridge", code, Encrypt(text, bridgeKeys.keys.bridgeToClient), text,
            bridgeKeys.exchange)

\* encryptPayload() of the app, which no screen calls yet.
PhoneSeals(text) ==
    /\ phone # Unset
    /\ Seal("phone", phone.sessionId,
            EncryptRelayPayload(text, phone.sessionKeys.clientToBridge), text, phone.exchange)

\* The relay passes a message on to the other party, or it is lost.
Takes(m, from, sessionId) ==
    /\ m \in sealed /\ sealed' = sealed \ {m}
    /\ m.from = from /\ MeetsAt(sessionId, m.sessionId)
    /\ UNCHANGED <<code, bridgeKey, bridgeKeys, qrCodes, phone, confirms, keysMade>>

\* handleRelayMessage() of the bridge.
BridgeOpens(m) ==
    /\ bridgeKeys # Unset /\ Takes(m, "phone", code)
    /\ attempt' = [sealed |-> m, exchange |-> bridgeKeys.exchange,
                   result |-> Decrypt(m.payload, bridgeKeys.keys.clientToBridge)]

\* handleEncryptedMessage() of the app: what cannot be opened shows an error.
PhoneOpens(m) ==
    /\ phone # Unset /\ Takes(m, "bridge", phone.sessionId)
    /\ attempt' = [sealed |-> m, exchange |-> phone.exchange,
                   result |-> DecryptRelayPayload(m.payload, phone.sessionKeys.bridgeToClient)]

LosesSealed(m) ==
    /\ sealed' = sealed \ {m}
    /\ UNCHANGED <<code, bridgeKey, bridgeKeys, qrCodes, phone, confirms, attempt, keysMade>>

CryptoNext ==
    \/ ForgetSession
    \/ \E c \in Code : StartBridge(c)
    \/ \E qr \in qrCodes : PairWith(qr)
    \/ \E m \in confirms : CompletePairing(m) \/ LosesConfirm(m)
    \/ \E text \in Text : BridgeSeals(text) \/ PhoneSeals(text)
    \/ \E m \in sealed : BridgeOpens(m) \/ PhoneOpens(m) \/ LosesSealed(m)

CryptoSpec == CryptoInit /\ [][CryptoNext]_cryptoVars

-----------------------------------------------------------------------------
(* Correctness.                                                            *)

Exchange == [bridge : Nat, phone : Nat, small : BOOLEAN]

CryptoTypeOK ==
    /\ code \in Code /\ keysMade \in Nat
    /\ bridgeKey \in Nat \cup {Unset}
    /\ bridgeKeys # Unset => bridgeKeys.exchange \in Exchange
    /\ phone # Unset => phone.exchange \in Exchange /\ phone.sessionId \in Code

\* What one side sealed opens on the other as the text it was, whichever
\* library sealed it, if both have their keys of one exchange and the session
\* code has no small letters; of another exchange, of an earlier bridge or
\* pairing, nothing opens, and nothing ever opens as another text.  With small
\* letters the bridge salts with the code as given, the app with capitals, and
\* nothing opens (encryption.ts:35-54; crypto-client.ts:65-128;
\* message-router.ts:86, 145-148; pairing.ts:15-17).
SealedMessagesOpen ==
    attempt # Unset =>
        attempt.result =
            IF attempt.exchange = attempt.sealed.exchange /\ ~attempt.exchange.small
            THEN attempt.sealed.text ELSE Failed
===============================================================================
