-------------------------- MODULE SessionCryptoProofs --------------------------
(***************************************************************************)
(* What the bridge and the app seal opens on the other side exactly when it *)
(* should, for any texts, session codes, bridges and pairings.             *)
(*                                                                         *)
(* First what the two libraries' ways of sealing and opening come to, then *)
(* what is known of the keys each party has.                               *)
(***************************************************************************)
EXTENDS SessionCrypto, SequenceTheorems, TLAPS

-----------------------------------------------------------------------------
(* Sealing and opening.                                                    *)

\* A text is the sequence of its bytes.
LEMMA BytesOfText ==
    ASSUME NEW text \in Text
    PROVE  /\ text \in Seq(Nat) /\ Len(text) \in Nat
           /\ DOMAIN text = 1 .. Len(text)
           /\ text = [i \in 1 .. Len(text) |-> text[i]]
<1>1. text \in Seq(Nat)
    BY CryptoAssumption
<1> QED
    BY <1>1, LenProperties

\* Deciphering gives the text back to the key it was sealed with, and to no
\* other key, even if the text is empty.
LEMMA OnlyTheKeyOpens ==
    ASSUME NEW text \in Text, NEW k, NEW other
    PROVE  Decrypt(Encrypt(text, k), other) = IF other = k THEN text ELSE Failed
<1> DEFINE masked == Masked(k, text)
           bytes == [i \in DOMAIN masked |-> masked[i].byte]
<1>1. DOMAIN masked = 1 .. Len(text) /\ \A i \in 1 .. Len(text) : masked[i].byte = text[i]
    BY BytesOfText DEF Masked
<1>2. bytes = text
    BY <1>1, BytesOfText
<1>3. Tag(k, text) = Tag(other, text) => k = other
    <2>1. 1 \in 1 .. TagLength
        BY DEF TagLength
    <2>2. Tag(k, text)[1].key = k /\ Tag(other, text)[1].key = other
        BY <2>1 DEF Tag
    <2> QED
        BY <2>2
<1>4. Decrypt(Encrypt(text, k), other) = Deciphered(other, masked, Tag(k, text))
    BY DEF Decrypt, Encrypt
<1>5. Deciphered(other, masked, Tag(k, text)) =
        IF masked = Masked(other, bytes) /\ Tag(k, text) = Tag(other, bytes)
        THEN bytes ELSE Failed
    BY DEF Deciphered
<1> HIDE DEF bytes
<1> QED
    BY <1>2, <1>3, <1>4, <1>5

\* A ciphertext and a tag are sequences, so one can be cut from the other.
LEMMA CutAtTag ==
    ASSUME NEW text \in Text, NEW k
    PROVE  LET combined == Masked(k, text) \o Tag(k, text)
               length == Len(combined)
           IN  /\ length \in Nat /\ length >= TagLength
               /\ SubSeq(combined, 1, length - TagLength) = Masked(k, text)
               /\ SubSeq(combined, length - TagLength + 1, length) = Tag(k, text)
<1> DEFINE masked == Masked(k, text)
           tag == Tag(k, text)
           combined == masked \o tag
           n == Len(text)
           S == {masked[i] : i \in 1 .. n} \cup {tag[i] : i \in 1 .. 16}
<1>0. n \in Nat /\ DOMAIN text = 1 .. n
    BY BytesOfText
<1>1. masked \in Seq(S) /\ Len(masked) = n
    <2>1. masked \in [1 .. n -> S]
        BY <1>0 DEF Masked
    <2>2. masked \in Seq(S)
        BY <1>0, <2>1, SeqDef
    <2> HIDE DEF masked
    <2>3. DOMAIN masked = 1 .. n /\ DOMAIN masked = 1 .. Len(masked) /\ Len(masked) \in Nat
        BY <2>1, <2>2, LenProperties
    <2> QED
        BY <1>0, <2>2, <2>3
<1>2. tag \in Seq(S) /\ Len(tag) = 16
    <2>1. tag \in [1 .. 16 -> S]
        BY DEF Tag, TagLength
    <2>2. tag \in Seq(S)
        BY <2>1, SeqDef
    <2> HIDE DEF tag
    <2>3. DOMAIN tag = 1 .. 16 /\ DOMAIN tag = 1 .. Len(tag) /\ Len(tag) \in Nat
        BY <2>1, <2>2, LenProperties
    <2> QED
        BY <2>2, <2>3
<1> HIDE DEF masked, tag, n, S
<1>3. /\ combined \in Seq(S) /\ Len(combined) = n + 16
      /\ \A i \in 1 .. n + 16 : combined[i] = IF i <= n THEN masked[i] ELSE tag[i - n]
    <2>1. /\ combined \in Seq(S) /\ Len(combined) = Len(masked) + Len(tag)
          /\ \A i \in 1 .. Len(masked) + Len(tag) :
                combined[i] = IF i <= Len(masked) THEN masked[i] ELSE tag[i - Len(masked)]
        BY <1>1, <1>2, ConcatProperties
    <2> QED
        BY <1>1, <1>2, <2>1
<1>4. \A i \in 1 .. n + 16 : combined[i] \in S
    BY <1>3, ElementOfSeq
<1> HIDE DEF combined
<1>5. SubSeq(combined, 1, n) = masked
    <2>1. \A i \in 1 .. n : combined[i] \in S
        BY <1>0, <1>4
    <2>2. /\ SubSeq(combined, 1, n) \in Seq(S) /\ Len(SubSeq(combined, 1, n)) = n
          /\ \A i \in 1 .. n : SubSeq(combined, 1, n)[i] = combined[i]
        BY <1>0, <2>1, SubSeqProperties
    <2>3. \A i \in 1 .. n : SubSeq(combined, 1, n)[i] = masked[i]
        BY <1>0, <1>3, <2>2
    <2> QED
        BY <1>1, <2>2, <2>3, SeqEqual
<1>6. SubSeq(combined, n + 1, n + 16) = tag
    <2>1. \A i \in n + 1 .. n + 16 : combined[i] \in S
        BY <1>0, <1>4
    <2>2. /\ SubSeq(combined, n + 1, n + 16) \in Seq(S)
          /\ Len(SubSeq(combined, n + 1, n + 16)) = 16
          /\ \A i \in 1 .. 16 : SubSeq(combined, n + 1, n + 16)[i] = combined[n + i]
        BY <1>0, <2>1, SubSeqProperties
    <2>3. \A i \in 1 .. 16 : SubSeq(combined, n + 1, n + 16)[i] = tag[i]
        BY <1>0, <1>3, <2>2
    <2> QED
        BY <1>2, <2>2, <2>3, SeqEqual
<1> QED
    BY <1>0, <1>3, <1>5, <1>6 DEF TagLength, combined, masked, tag

\* The two libraries seal alike.
LEMMA SealAlike ==
    ASSUME NEW text \in Text, NEW k
    PROVE  EncryptRelayPayload(text, k) = Encrypt(text, k)
BY CutAtTag DEF EncryptRelayPayload, Encrypt

\* And open alike what one of them sealed.
LEMMA OpenAlike ==
    ASSUME NEW text \in Text, NEW k, NEW other
    PROVE  DecryptRelayPayload(Encrypt(text, k), other) = Decrypt(Encrypt(text, k), other)
<1> DEFINE combined == Masked(k, text) \o Tag(k, text)
           length == Len(combined)
<1>1. /\ length \in Nat /\ ~(length < TagLength)
      /\ SubSeq(combined, 1, length - TagLength) = Masked(k, text)
      /\ SubSeq(combined, length - TagLength + 1, length) = Tag(k, text)
    BY CutAtTag DEF TagLength
<1>2. /\ Encrypt(text, k).ciphertext = Masked(k, text)
      /\ Encrypt(text, k).tag = Tag(k, text)
    BY DEF Encrypt
<1> QED
    BY <1>1, <1>2 DEF DecryptRelayPayload, Decrypt

-----------------------------------------------------------------------------
(* Who has which keys.                                                     *)

\* The number of the key pair a QR code was shown for.
Number(qr) == qr.bridgeKeyExchange.key

\* QR codes tell bridges apart, and the bridge that runs has shown its own.
QrInv ==
    /\ \A qr \in qrCodes : /\ qr.sessionId \in Code
                           /\ Number(qr) \in Nat /\ Number(qr) <= keysMade
    /\ \A qr, other \in qrCodes :
          Number(qr) = Number(other) => qr.sessionId = other.sessionId
    /\ bridgeKey # Unset =>
          \E qr \in qrCodes : Number(qr) = bridgeKey /\ qr.sessionId = code

IsPhoneKey(n) == n \in Nat /\ n <= keysMade /\ \A qr \in qrCodes : Number(qr) # n

ConfirmInv ==
    \A m \in confirms : m.sessionId \in Code /\ IsPhoneKey(m.clientEphemeralKey.key)

\* An exchange that began with this QR code, and the keys made of it.
BeganWith(qr, e) ==
    /\ e \in Exchange
    /\ e.bridge = Number(qr) /\ e.small = qr.sessionId.small /\ IsPhoneKey(e.phone)

KeysOf(e, salt) == DeriveDirectionalKeys({e.bridge, e.phone}, salt)

\* The salt of the bridge's keys is the code as given, that of the app's keys
\* the normalised one.
BridgeHas(keys, e) ==
    \E qr \in qrCodes :
        BeganWith(qr, e) /\ ~qr.sessionId.blanks /\ keys = KeysOf(e, qr.sessionId)

PhoneHas(keys, e) ==
    \E qr \in qrCodes :
        BeganWith(qr, e) /\ keys = KeysOf(e, NormalizeSessionCode(qr.sessionId))

KeysInv ==
    /\ bridgeKeys # Unset => BridgeHas(bridgeKeys.keys, bridgeKeys.exchange)
    /\ phone # Unset => PhoneHas(phone.sessionKeys, phone.exchange)

\* Whichever side sealed a message, its payload is that of Encrypt.
SealedByBridge(m) ==
    /\ m.text \in Text
    /\ \E qr \in qrCodes :
        /\ BeganWith(qr, m.exchange) /\ ~qr.sessionId.blanks
        /\ m.payload = Encrypt(m.text, KeysOf(m.exchange, qr.sessionId).bridgeToClient)

SealedByPhone(m) ==
    /\ m.text \in Text
    /\ \E qr \in qrCodes :
        /\ BeganWith(qr, m.exchange)
        /\ m.payload = Encrypt(m.text,
              KeysOf(m.exchange, NormalizeSessionCode(qr.sessionId)).clientToBridge)

SealedInv ==
    \A m \in sealed :
        /\ m.from = "bridge" => SealedByBridge(m)
        /\ m.from = "phone" => SealedByPhone(m)

CryptoInv == CryptoTypeOK /\ QrInv /\ ConfirmInv /\ KeysInv /\ SealedInv

\* A derived key is told by its secret and its salt.
LEMMA HalvesAlike ==
    ASSUME NEW a, NEW b, NEW x, NEW y, NEW h
    PROVE  [secret |-> a, salt |-> x, half |-> h] = [secret |-> b, salt |-> y, half |-> h]
                <=> (a = b /\ x = y)
OBVIOUS

\* A bridge's key is an app's key exactly if both come from one exchange and
\* the code, which the app normalises, has no small letters.
LEMMA SameKeys ==
    ASSUME QrInv, NEW qr \in qrCodes, NEW other \in qrCodes, NEW e, NEW f,
           BeganWith(qr, e), ~qr.sessionId.blanks, BeganWith(other, f)
    PROVE  /\ KeysOf(e, qr.sessionId).bridgeToClient
                = KeysOf(f, NormalizeSessionCode(other.sessionId)).bridgeToClient
                    <=> (e = f /\ ~f.small)
           /\ KeysOf(e, qr.sessionId).clientToBridge
                = KeysOf(f, NormalizeSessionCode(other.sessionId)).clientToBridge
                    <=> (e = f /\ ~f.small)
<1> DEFINE c == qr.sessionId
           d == NormalizeSessionCode(other.sessionId)
           agree == {e.bridge, e.phone} = {f.bridge, f.phone} /\ c = d
<1>1. /\ KeysOf(e, c).bridgeToClient =
            [secret |-> {e.bridge, e.phone}, salt |-> c, half |-> 1]
      /\ KeysOf(f, d).bridgeToClient =
            [secret |-> {f.bridge, f.phone}, salt |-> d, half |-> 1]
      /\ KeysOf(e, c).clientToBridge =
            [secret |-> {e.bridge, e.phone}, salt |-> c, half |-> 2]
      /\ KeysOf(f, d).clientToBridge =
            [secret |-> {f.bridge, f.phone}, salt |-> d, half |-> 2]
    BY DEF KeysOf, DeriveDirectionalKeys, Hkdf
<1>2. /\ KeysOf(e, c).bridgeToClient = KeysOf(f, d).bridgeToClient <=> agree
      /\ KeysOf(e, c).clientToBridge = KeysOf(f, d).clientToBridge <=> agree
    <2> DEFINE half(g, salt, h) ==
                  [secret |-> {g.bridge, g.phone}, salt |-> salt, half |-> h]
    <2>1. half(e, c, 1) = half(f, d, 1) <=> agree
        BY HalvesAlike
    <2>2. half(e, c, 2) = half(f, d, 2) <=> agree
        BY HalvesAlike
    <2>3. /\ KeysOf(e, c).bridgeToClient = half(e, c, 1)
          /\ KeysOf(f, d).bridgeToClient = half(f, d, 1)
          /\ KeysOf(e, c).clientToBridge = half(e, c, 2)
          /\ KeysOf(f, d).clientToBridge = half(f, d, 2)
        BY <1>1
    <2> HIDE DEF c, d, agree, half
    <2> QED
        BY <2>1, <2>2, <2>3
<1>3. /\ e \in Exchange /\ f \in Exchange
      /\ e.bridge = Number(qr) /\ e.small = c.small
      /\ f.bridge = Number(other) /\ f.small = other.sessionId.small
      /\ e.phone # f.bridge /\ f.phone # e.bridge
    BY DEF BeganWith, IsPhoneKey
<1>4. e.bridge = f.bridge => other.sessionId = c
    BY <1>3 DEF QrInv
<1>5. c \in Code /\ other.sessionId \in Code
    BY DEF QrInv
<1>6. ASSUME agree PROVE e = f /\ ~f.small
    <2>1. e.bridge = f.bridge /\ e.phone = f.phone
        BY <1>3, <1>6
    <2>2. e.small = f.small
        BY <1>3, <1>4, <2>1
    <2>3. e = f
        BY <1>3, <2>1, <2>2 DEF Exchange
    <2>4. d.small = FALSE
        BY <1>5 DEF NormalizeSessionCode, Code
    <2> QED
        BY <1>3, <1>6, <2>2, <2>3, <2>4
<1>7. ASSUME e = f, ~f.small PROVE agree
    <2>1. d = [c EXCEPT !.small = FALSE, !.blanks = FALSE]
        BY <1>4, <1>7 DEF NormalizeSessionCode
    <2>2. c.small = FALSE /\ c.blanks = FALSE
        BY <1>3, <1>5, <1>7 DEF Exchange, Code
    <2>3. d = c
        BY <1>5, <2>1, <2>2 DEF Code
    <2> QED
        BY <1>7, <2>3
<1> QED
    BY <1>2, <1>6, <1>7

\* What either side opens of what the other sealed.
LEMMA OpensRight ==
    ASSUME QrInv, NEW m, NEW keys, NEW own
    PROVE  /\ SealedByBridge(m) /\ PhoneHas(keys, own) =>
                DecryptRelayPayload(m.payload, keys.bridgeToClient) =
                    IF own = m.exchange /\ ~own.small THEN m.text ELSE Failed
           /\ SealedByPhone(m) /\ BridgeHas(keys, own) =>
                Decrypt(m.payload, keys.clientToBridge) =
                    IF own = m.exchange /\ ~own.small THEN m.text ELSE Failed
<1>1. ASSUME SealedByBridge(m), PhoneHas(keys, own)
      PROVE  DecryptRelayPayload(m.payload, keys.bridgeToClient) =
                IF own = m.exchange /\ ~own.small THEN m.text ELSE Failed
    <2>0. m.text \in Text
        BY <1>1 DEF SealedByBridge
    <2>1. PICK qr \in qrCodes :
            /\ BeganWith(qr, m.exchange) /\ ~qr.sessionId.blanks
            /\ m.payload = Encrypt(m.text, KeysOf(m.exchange, qr.sessionId).bridgeToClient)
        BY <1>1 DEF SealedByBridge
    <2>2. PICK other \in qrCodes :
            BeganWith(other, own) /\ keys = KeysOf(own, NormalizeSessionCode(other.sessionId))
        BY <1>1 DEF PhoneHas
    <2> DEFINE k == KeysOf(m.exchange, qr.sessionId).bridgeToClient
    <2>3. k = keys.bridgeToClient <=> (m.exchange = own /\ ~own.small)
        <3>1. BeganWith(qr, m.exchange)
            BY <2>1
        <3>2. BeganWith(other, own)
            BY <2>2
        <3>3. ~qr.sessionId.blanks
            BY <2>1
        <3>4. KeysOf(m.exchange, qr.sessionId).bridgeToClient
                = KeysOf(own, NormalizeSessionCode(other.sessionId)).bridgeToClient
                    <=> (m.exchange = own /\ ~own.small)
            BY <3>1, <3>2, <3>3, SameKeys
        <3> QED
            BY <2>2, <3>4
    <2>4. m.payload = Encrypt(m.text, k)
        BY <2>1
    <2> HIDE DEF k
    <2>5. DecryptRelayPayload(m.payload, keys.bridgeToClient) =
            Decrypt(Encrypt(m.text, k), keys.bridgeToClient)
        BY <2>0, <2>4, OpenAlike
    <2>6. Decrypt(Encrypt(m.text, k), keys.bridgeToClient) =
            IF keys.bridgeToClient = k THEN m.text ELSE Failed
        BY <2>0, OnlyTheKeyOpens
    <2> QED
        BY <2>3, <2>5, <2>6
<1>2. ASSUME SealedByPhone(m), BridgeHas(keys, own)
      PROVE  Decrypt(m.payload, keys.clientToBridge) =
                IF own = m.exchange /\ ~own.small THEN m.text ELSE Failed
    <2>0. m.text \in Text
        BY <1>2 DEF SealedByPhone
    <2>1. PICK other \in qrCodes :
            /\ BeganWith(other, m.exchange)
            /\ m.payload = Encrypt(m.text,
                KeysOf(m.exchange, NormalizeSessionCode(other.sessionId)).clientToBridge)
        BY <1>2 DEF SealedByPhone
    <2>2. PICK qr \in qrCodes :
            BeganWith(qr, own) /\ ~qr.sessionId.blanks /\ keys = KeysOf(own, qr.sessionId)
        BY <1>2 DEF BridgeHas
    <2> DEFINE k == KeysOf(m.exchange, NormalizeSessionCode(other.sessionId)).clientToBridge
    <2>3. keys.clientToBridge = k <=> (own = m.exchange /\ ~m.exchange.small)
        <3>1. BeganWith(other, m.exchange)
            BY <2>1
        <3>2. BeganWith(qr, own) /\ ~qr.sessionId.blanks
            BY <2>2
        <3>3. KeysOf(own, qr.sessionId).clientToBridge
                = KeysOf(m.exchange, NormalizeSessionCode(other.sessionId)).clientToBridge
                    <=> (own = m.exchange /\ ~m.exchange.small)
            BY <3>1, <3>2, SameKeys
        <3> QED
            BY <2>2, <3>3
    <2>4. m.payload = Encrypt(m.text, k)
        BY <2>1
    <2> HIDE DEF k
    <2>5. Decrypt(Encrypt(m.text, k), keys.clientToBridge) =
            IF keys.clientToBridge = k THEN m.text ELSE Failed
        BY <2>0, OnlyTheKeyOpens
    <2> QED
        BY <2>3, <2>4, <2>5
<1> QED
    BY <1>1, <1>2


-----------------------------------------------------------------------------
(* The invariant.                                                          *)

\* What a step does to the QR codes and the number of key pairs.
LEMMA NewKeys ==
    ASSUME [CryptoNext]_cryptoVars
    PROVE  \/ \E c \in Code : StartBridge(c)
           \/ \E qr \in qrCodes : PairWith(qr)
           \/ /\ UNCHANGED <<code, bridgeKey, qrCodes, keysMade>>
              /\ confirms' \subseteq confirms
<1>1. CASE ForgetSession
    BY <1>1 DEF ForgetSession
<1>2. ASSUME NEW m \in confirms, CompletePairing(m) \/ LosesConfirm(m)
      PROVE  UNCHANGED <<code, bridgeKey, qrCodes, keysMade>> /\ confirms' \subseteq confirms
    BY <1>2 DEF CompletePairing, LosesConfirm
<1>3. ASSUME NEW text \in Text, BridgeSeals(text) \/ PhoneSeals(text)
      PROVE  UNCHANGED <<code, bridgeKey, qrCodes, keysMade, confirms>>
    BY <1>3 DEF BridgeSeals, PhoneSeals, Seal
<1>4. ASSUME NEW m \in sealed, BridgeOpens(m) \/ PhoneOpens(m) \/ LosesSealed(m)
      PROVE  UNCHANGED <<code, bridgeKey, qrCodes, keysMade, confirms>>
    BY <1>4 DEF BridgeOpens, PhoneOpens, Takes, LosesSealed
<1>5. CASE UNCHANGED cryptoVars
    BY <1>5 DEF cryptoVars
<1> QED
    BY <1>1, <1>2, <1>3, <1>4, <1>5 DEF CryptoNext

\* A new QR code has a number of its own.
LEMMA QrStep ==
    ASSUME CryptoTypeOK, QrInv, [CryptoNext]_cryptoVars
    PROVE  QrInv'
<1>1. ASSUME NEW c \in Code, StartBridge(c) PROVE QrInv'
    <2> DEFINE new == [sessionId |-> c, bridgeKeyExchange |-> Der("x25519", keysMade')]
    <2>1. /\ qrCodes' = qrCodes \cup {new}
          /\ keysMade' = keysMade + 1 /\ bridgeKey' = keysMade' /\ code' = c
        BY <1>1 DEF StartBridge
    <2>2. new.sessionId = c /\ Number(new) = keysMade'
        BY DEF Number, Der
    <2> HIDE DEF new
    <2>3. keysMade \in Nat
        BY DEF CryptoTypeOK
    <2>4. \A qr \in qrCodes :
            /\ qr.sessionId \in Code
            /\ Number(qr) \in Nat /\ Number(qr) <= keysMade' /\ Number(qr) # Number(new)
        BY <2>1, <2>2, <2>3 DEF QrInv
    <2>5. \A qr \in qrCodes' : /\ qr.sessionId \in Code
                               /\ Number(qr) \in Nat /\ Number(qr) <= keysMade'
        BY <2>1, <2>2, <2>3, <2>4
    <2>6. \A qr, other \in qrCodes' :
            Number(qr) = Number(other) => qr.sessionId = other.sessionId
        BY <2>1, <2>4 DEF QrInv
    <2>7. \E qr \in qrCodes' : Number(qr) = bridgeKey' /\ qr.sessionId = code'
        BY <2>1, <2>2
    <2> QED
        BY <2>5, <2>6, <2>7 DEF QrInv, Number
<1>2. ASSUME NEW qr \in qrCodes, PairWith(qr) PROVE QrInv'
    <2>1. /\ UNCHANGED <<code, bridgeKey, qrCodes>> /\ keysMade' = keysMade + 1
          /\ keysMade \in Nat
        BY <1>2 DEF PairWith, CryptoTypeOK
    <2>2. \A r \in qrCodes : Number(r) \in Nat /\ Number(r) <= keysMade'
        BY <2>1 DEF QrInv
    <2> QED
        BY <2>1, <2>2 DEF QrInv, Number
<1>3. CASE UNCHANGED <<code, bridgeKey, qrCodes, keysMade>>
    BY <1>3 DEF QrInv, Number
<1> QED
    BY <1>1, <1>2, <1>3, NewKeys

\* What is a key of the app stays one, and exchanges stay with their QR codes.
LEMMA StillBegan ==
    ASSUME CryptoTypeOK, QrInv, [CryptoNext]_cryptoVars
    PROVE  /\ qrCodes \subseteq qrCodes'
           /\ \A n : IsPhoneKey(n) => IsPhoneKey(n)'
           /\ \A qr, e : BeganWith(qr, e) => BeganWith(qr, e)'
<1>0. keysMade \in Nat
    BY DEF CryptoTypeOK
<1>1. qrCodes \subseteq qrCodes' /\ \A n : IsPhoneKey(n) => IsPhoneKey(n)'
    <2>1. ASSUME NEW c \in Code, StartBridge(c)
          PROVE  qrCodes \subseteq qrCodes' /\ \A n : IsPhoneKey(n) => IsPhoneKey(n)'
        <3> DEFINE new == [sessionId |-> c, bridgeKeyExchange |-> Der("x25519", keysMade')]
        <3>1. qrCodes' = qrCodes \cup {new} /\ keysMade' = keysMade + 1
            BY <2>1 DEF StartBridge
        <3>2. Number(new) = keysMade'
            BY DEF Number, Der
        <3> HIDE DEF new
        <3>3. ASSUME NEW n, IsPhoneKey(n) PROVE IsPhoneKey(n)'
            <4>1. n \in Nat /\ n <= keysMade /\ \A qr \in qrCodes : Number(qr) # n
                BY <3>3 DEF IsPhoneKey
            <4>2. n <= keysMade' /\ n # Number(new)
                BY <1>0, <3>1, <3>2, <4>1
            <4>3. \A qr \in qrCodes' : Number(qr) # n
                BY <3>1, <4>1, <4>2
            <4> QED
                BY <4>1, <4>2, <4>3 DEF IsPhoneKey, Number
        <3> QED
            BY <3>1, <3>3
    <2>2. ASSUME NEW qr \in qrCodes, PairWith(qr)
          PROVE  qrCodes \subseteq qrCodes' /\ \A n : IsPhoneKey(n) => IsPhoneKey(n)'
        <3>1. qrCodes' = qrCodes /\ keysMade' = keysMade + 1
            BY <2>2 DEF PairWith
        <3> QED
            BY <1>0, <3>1 DEF IsPhoneKey, Number
    <2>3. CASE UNCHANGED <<code, bridgeKey, qrCodes, keysMade>>
        BY <2>3 DEF IsPhoneKey, Number
    <2> QED
        BY <2>1, <2>2, <2>3, NewKeys
<1>2. ASSUME NEW qr, NEW e, BeganWith(qr, e) PROVE BeganWith(qr, e)'
    <2>1. IsPhoneKey(e.phone)'
        BY <1>1, <1>2 DEF BeganWith
    <2> QED
        BY <1>2, <2>1 DEF BeganWith, Number
<1> QED
    BY <1>1, <1>2

\* The keys a party has are still those of their exchange.
LEMMA StillHas ==
    ASSUME CryptoTypeOK, QrInv, [CryptoNext]_cryptoVars
    PROVE  /\ \A keys, e : BridgeHas(keys, e) => BridgeHas(keys, e)'
           /\ \A keys, e : PhoneHas(keys, e) => PhoneHas(keys, e)'
           /\ \A m : SealedByBridge(m) => SealedByBridge(m)'
           /\ \A m : SealedByPhone(m) => SealedByPhone(m)'
<1>1. ASSUME NEW keys, NEW e, BridgeHas(keys, e) PROVE BridgeHas(keys, e)'
    <2>1. PICK qr \in qrCodes :
            BeganWith(qr, e) /\ ~qr.sessionId.blanks /\ keys = KeysOf(e, qr.sessionId)
        BY <1>1 DEF BridgeHas
    <2>2. qr \in qrCodes' /\ BeganWith(qr, e)'
        BY <2>1, StillBegan
    <2> QED
        BY <2>1, <2>2 DEF BridgeHas
<1>2. ASSUME NEW keys, NEW e, PhoneHas(keys, e) PROVE PhoneHas(keys, e)'
    <2>1. PICK qr \in qrCodes :
            BeganWith(qr, e) /\ keys = KeysOf(e, NormalizeSessionCode(qr.sessionId))
        BY <1>2 DEF PhoneHas
    <2>2. qr \in qrCodes' /\ BeganWith(qr, e)'
        BY <2>1, StillBegan
    <2> QED
        BY <2>1, <2>2 DEF PhoneHas
<1>3. ASSUME NEW m, SealedByBridge(m) PROVE SealedByBridge(m)'
    <2>1. PICK qr \in qrCodes :
            /\ BeganWith(qr, m.exchange) /\ ~qr.sessionId.blanks
            /\ m.payload = Encrypt(m.text, KeysOf(m.exchange, qr.sessionId).bridgeToClient)
        BY <1>3 DEF SealedByBridge
    <2>2. qr \in qrCodes' /\ BeganWith(qr, m.exchange)'
        BY <2>1, StillBegan
    <2>3. m.text \in Text
        BY <1>3 DEF SealedByBridge
    <2> QED
        BY <2>1, <2>2, <2>3 DEF SealedByBridge
<1>4. ASSUME NEW m, SealedByPhone(m) PROVE SealedByPhone(m)'
    <2>1. PICK qr \in qrCodes :
            /\ BeganWith(qr, m.exchange)
            /\ m.payload = Encrypt(m.text,
                KeysOf(m.exchange, NormalizeSessionCode(qr.sessionId)).clientToBridge)
        BY <1>4 DEF SealedByPhone
    <2>2. qr \in qrCodes' /\ BeganWith(qr, m.exchange)'
        BY <2>1, StillBegan
    <2>3. m.text \in Text
        BY <1>4 DEF SealedByPhone
    <2> QED
        BY <2>1, <2>2, <2>3 DEF SealedByPhone
<1> QED
    BY <1>1, <1>2, <1>3, <1>4

\* The key pair of a new pairing is no bridge's.
LEMMA FreshKey ==
    ASSUME CryptoTypeOK, QrInv, NEW qr \in qrCodes, PairWith(qr), NEW n, n = keysMade'
    PROVE  IsPhoneKey(n)'
<1>1. qrCodes' = qrCodes /\ n = keysMade + 1 /\ keysMade \in Nat
    BY DEF PairWith, CryptoTypeOK
<1>2. \A r \in qrCodes : Number(r) \in Nat /\ Number(r) <= keysMade
    BY DEF QrInv
<1>3. n \in Nat /\ n <= keysMade' /\ \A r \in qrCodes' : Number(r) # n
    BY <1>1, <1>2
<1> QED
    BY <1>3 DEF IsPhoneKey, Number

\* The app's new key pair is no bridge's.
LEMMA ConfirmStep ==
    ASSUME CryptoTypeOK, QrInv, ConfirmInv, [CryptoNext]_cryptoVars
    PROVE  ConfirmInv'
<1>1. ASSUME NEW m \in confirms PROVE m.sessionId \in Code /\ IsPhoneKey(m.clientEphemeralKey.key)'
    BY StillBegan DEF ConfirmInv
<1>2. CASE confirms' \subseteq confirms
    BY <1>1, <1>2 DEF ConfirmInv
<1>3. ASSUME NEW c \in Code, StartBridge(c) PROVE ConfirmInv'
    <2>1. confirms' = confirms
        BY <1>3 DEF StartBridge
    <2> QED
        BY <1>2, <2>1
<1>4. ASSUME NEW qr \in qrCodes, PairWith(qr) PROVE ConfirmInv'
    <2>1. PICK n : n = keysMade'
        OBVIOUS
    <2>2. PICK new : new = [sessionId |-> NormalizeSessionCode(qr.sessionId),
                            clientEphemeralKey |-> Der("x25519", n)]
        OBVIOUS
    <2>3. confirms' = confirms \cup {new}
        BY <1>4, <2>1, <2>2 DEF PairWith
    <2>4. new.clientEphemeralKey.key = n
        BY <2>2 DEF Der
    <2>5. new.sessionId \in Code
        BY <2>2 DEF QrInv, NormalizeSessionCode, Code
    <2>6. IsPhoneKey(n)'
        BY <1>4, <2>1, FreshKey
    <2>7. IsPhoneKey(new.clientEphemeralKey.key)'
        BY <2>4, <2>6
    <2> QED
        BY <1>1, <2>3, <2>5, <2>7 DEF ConfirmInv
<1> QED
    BY <1>2, <1>3, <1>4, NewKeys

\* A pairing that the bridge completes: its keys are those of the QR code it
\* shows, and its code has no blanks since the relay let the app meet it.
LEMMA BridgeGetsKeys ==
    ASSUME CryptoTypeOK, QrInv, ConfirmInv, NEW m \in confirms, CompletePairing(m)
    PROVE  BridgeHas(bridgeKeys.keys, bridgeKeys.exchange)' /\ bridgeKeys'.exchange \in Exchange
<1>1. PICK p : p = m.clientEphemeralKey.key
    OBVIOUS
<1>2. PICK e : e = [bridge |-> bridgeKey, phone |-> p, small |-> code.small]
    OBVIOUS
<1>3. PICK keys : keys = DeriveDirectionalKeys({bridgeKey, p}, code)
    OBVIOUS
<1>4. bridgeKeys' = [keys |-> keys, exchange |-> e] /\ bridgeKey # Unset /\ ~code.blanks
    BY <1>1, <1>2, <1>3 DEF CompletePairing, SharedSecret, MeetsAt
<1>5. PICK qr \in qrCodes : Number(qr) = bridgeKey /\ qr.sessionId = code
    BY <1>4 DEF QrInv
<1>6. IsPhoneKey(p)
    BY <1>1 DEF ConfirmInv
<1>7. p \in Nat /\ bridgeKey \in Nat /\ code.small \in BOOLEAN
    <2>1. p \in Nat
        BY <1>6 DEF IsPhoneKey
    <2>2. bridgeKey \in Nat /\ code.small \in BOOLEAN
        BY <1>4 DEF CryptoTypeOK, Code
    <2> QED
        BY <2>1, <2>2
<1>8. e \in Exchange /\ e.bridge = bridgeKey /\ e.phone = p /\ e.small = code.small
    BY <1>2, <1>7 DEF Exchange
<1>9. keys = KeysOf(e, qr.sessionId)
    BY <1>3, <1>5, <1>8 DEF KeysOf
<1>10. BeganWith(qr, e)
    BY <1>5, <1>6, <1>8 DEF BeganWith
<1>11. BridgeHas(keys, e)
    BY <1>4, <1>5, <1>9, <1>10 DEF BridgeHas
<1>12. [CryptoNext]_cryptoVars
    BY DEF CryptoNext
<1>13. BridgeHas(keys, e)'
    BY <1>11, <1>12, StillHas
<1>14. bridgeKeys'.keys = keys /\ bridgeKeys'.exchange = e
    BY <1>4
<1> QED
    BY <1>8, <1>13, <1>14

\* A pairing that the app begins.
LEMMA PhoneGetsKeys ==
    ASSUME CryptoTypeOK, QrInv, NEW qr \in qrCodes, PairWith(qr)
    PROVE  /\ PhoneHas(phone.sessionKeys, phone.exchange)'
           /\ phone'.exchange \in Exchange /\ phone'.sessionId \in Code
<1>1. PICK n : n = keysMade'
    OBVIOUS
<1>2. PICK c : c = NormalizeSessionCode(qr.sessionId)
    OBVIOUS
<1>3. PICK e : e = [bridge |-> Number(qr), phone |-> n, small |-> qr.sessionId.small]
    OBVIOUS
<1>4. PICK keys : keys = DeriveDirectionalKeys({n, Number(qr)}, c)
    OBVIOUS
<1>5. DeriveDirectionalSessionKeys({n, Number(qr)}, c) = keys
    BY <1>4 DEF DeriveDirectionalSessionKeys, DeriveDirectionalKeys, SplitDirectionalKeyBytes
<1>6. phone' = [sessionId |-> c, sessionKeys |-> keys, exchange |-> e]
    BY <1>1, <1>2, <1>3, <1>5 DEF PairWith, SharedSecret, Number
<1>7. qrCodes' = qrCodes
    BY DEF PairWith
<1>8. IsPhoneKey(n)'
    BY <1>1, FreshKey
<1>9. n \in Nat /\ Number(qr) \in Nat /\ qr.sessionId.small \in BOOLEAN /\ c \in Code
    <2>1. qr.sessionId \in Code /\ Number(qr) \in Nat
        BY DEF QrInv
    <2>2. n \in Nat
        BY <1>1 DEF PairWith, CryptoTypeOK
    <2> QED
        BY <1>2, <2>1, <2>2 DEF Code, NormalizeSessionCode
<1>10. /\ e \in Exchange
       /\ e.bridge = Number(qr) /\ e.phone = n /\ e.small = qr.sessionId.small
    BY <1>3, <1>9 DEF Exchange
<1>11. keys = KeysOf(e, NormalizeSessionCode(qr.sessionId))
    <2>1. {n, Number(qr)} = {Number(qr), n}
        OBVIOUS
    <2> QED
        BY <1>2, <1>4, <1>10, <2>1 DEF KeysOf
<1>12. BeganWith(qr, e)'
    BY <1>8, <1>10 DEF BeganWith, Number
<1>13. PhoneHas(keys, e)'
    BY <1>7, <1>11, <1>12 DEF PhoneHas
<1>14. phone'.sessionId = c /\ phone'.sessionKeys = keys /\ phone'.exchange = e
    BY <1>6
<1> QED
    BY <1>9, <1>10, <1>13, <1>14

\* The variables keep their types.
LEMMA TypeStep ==
    ASSUME CryptoTypeOK, QrInv, ConfirmInv, [CryptoNext]_cryptoVars
    PROVE  CryptoTypeOK'
<1>1. ASSUME NEW c \in Code, StartBridge(c) PROVE CryptoTypeOK'
    BY <1>1 DEF StartBridge, CryptoTypeOK
<1>2. ASSUME NEW qr \in qrCodes, PairWith(qr) PROVE CryptoTypeOK'
    <2>1. phone'.exchange \in Exchange /\ phone'.sessionId \in Code
        BY <1>2, PhoneGetsKeys
    <2>2. keysMade' \in Nat /\ UNCHANGED <<code, bridgeKey, bridgeKeys>>
        BY <1>2 DEF PairWith, CryptoTypeOK
    <2> QED
        BY <2>1, <2>2 DEF CryptoTypeOK
<1>3. ASSUME NEW m \in confirms, CompletePairing(m) PROVE CryptoTypeOK'
    <2>1. bridgeKeys'.exchange \in Exchange
        BY <1>3, BridgeGetsKeys
    <2>2. UNCHANGED <<code, bridgeKey, phone, keysMade>>
        BY <1>3 DEF CompletePairing
    <2> QED
        BY <2>1, <2>2 DEF CryptoTypeOK
<1>4. CASE UNCHANGED <<code, bridgeKey, bridgeKeys, phone, keysMade>>
    BY <1>4 DEF CryptoTypeOK
<1>5. CASE ForgetSession
    BY <1>5 DEF ForgetSession, CryptoTypeOK
<1>6. ASSUME NEW m \in confirms, LosesConfirm(m) PROVE CryptoTypeOK'
    BY <1>4, <1>6 DEF LosesConfirm
<1>7. ASSUME NEW text \in Text, BridgeSeals(text) \/ PhoneSeals(text) PROVE CryptoTypeOK'
    BY <1>4, <1>7 DEF BridgeSeals, PhoneSeals, Seal
<1>8. ASSUME NEW m \in sealed, BridgeOpens(m) \/ PhoneOpens(m) \/ LosesSealed(m)
      PROVE  CryptoTypeOK'
    BY <1>4, <1>8 DEF BridgeOpens, PhoneOpens, Takes, LosesSealed
<1>9. CASE UNCHANGED cryptoVars
    BY <1>4, <1>9 DEF cryptoVars
<1> QED
    BY <1>1, <1>2, <1>3, <1>5, <1>6, <1>7, <1>8, <1>9 DEF CryptoNext

\* Each side's keys are those of its exchange.
LEMMA KeysStep ==
    ASSUME CryptoTypeOK, QrInv, ConfirmInv, KeysInv, [CryptoNext]_cryptoVars
    PROVE  KeysInv'
<1>1. bridgeKeys' # Unset => BridgeHas(bridgeKeys.keys, bridgeKeys.exchange)'
    <2>1. CASE bridgeKeys' = bridgeKeys
        <3>1. PICK old : old = bridgeKeys
            OBVIOUS
        <3>2. old # Unset => BridgeHas(old.keys, old.exchange)
            BY <3>1 DEF KeysInv
        <3>3. old # Unset => BridgeHas(old.keys, old.exchange)'
            BY <3>2, StillHas
        <3> QED
            BY <2>1, <3>1, <3>3
    <2>2. ASSUME NEW m \in confirms, CompletePairing(m)
          PROVE  BridgeHas(bridgeKeys.keys, bridgeKeys.exchange)'
        BY <2>2, BridgeGetsKeys
    <2>3. ASSUME NEW c \in Code, StartBridge(c) PROVE bridgeKeys' = Unset
        BY <2>3 DEF StartBridge
    <2>4. \/ bridgeKeys' = bridgeKeys
          \/ \E m \in confirms : CompletePairing(m)
          \/ \E c \in Code : StartBridge(c)
        BY DEF CryptoNext, cryptoVars, ForgetSession, PairWith, LosesConfirm, BridgeSeals,
               PhoneSeals, Seal, BridgeOpens, PhoneOpens, Takes, LosesSealed
    <2> QED
        BY <2>1, <2>2, <2>3, <2>4
<1>2. phone' # Unset => PhoneHas(phone.sessionKeys, phone.exchange)'
    <2>1. CASE phone' = phone
        <3>1. PICK old : old = phone
            OBVIOUS
        <3>2. old # Unset => PhoneHas(old.sessionKeys, old.exchange)
            BY <3>1 DEF KeysInv
        <3>3. old # Unset => PhoneHas(old.sessionKeys, old.exchange)'
            BY <3>2, StillHas
        <3> QED
            BY <2>1, <3>1, <3>3
    <2>2. ASSUME NEW qr \in qrCodes, PairWith(qr)
          PROVE  PhoneHas(phone.sessionKeys, phone.exchange)'
        BY <2>2, PhoneGetsKeys
    <2>3. \/ phone' = phone \/ phone' = Unset
          \/ \E qr \in qrCodes : PairWith(qr)
        BY DEF CryptoNext, cryptoVars, ForgetSession, StartBridge, CompletePairing,
               LosesConfirm, BridgeSeals, PhoneSeals, Seal, BridgeOpens, PhoneOpens, Takes,
               LosesSealed
    <2> QED
        BY <2>1, <2>2, <2>3
<1> QED
    BY <1>1, <1>2 DEF KeysInv

\* What a side seals, it seals with the keys of its exchange.
LEMMA SealedStep ==
    ASSUME QrInv, CryptoTypeOK, KeysInv, SealedInv, [CryptoNext]_cryptoVars
    PROVE  SealedInv'
<1> DEFINE Right(m) == /\ m.from = "bridge" => SealedByBridge(m)
                       /\ m.from = "phone" => SealedByPhone(m)
<1>1. \A m \in sealed : Right(m)'
    BY StillHas DEF SealedInv
<1>2. CASE sealed' \subseteq sealed
    BY <1>1, <1>2 DEF SealedInv
<1>3. ASSUME NEW text \in Text, BridgeSeals(text) PROVE SealedInv'
    <2>1. PICK keys, e : keys = bridgeKeys.keys /\ e = bridgeKeys.exchange
        OBVIOUS
    <2>2. PICK new : new = [from |-> "bridge", sessionId |-> code,
                            payload |-> Encrypt(text, keys.bridgeToClient),
                            text |-> text, exchange |-> e]
        OBVIOUS
    <2>3. sealed' = sealed \cup {new} /\ BridgeHas(keys, e)
        BY <1>3, <2>1, <2>2 DEF BridgeSeals, Seal, KeysInv
    <2>4. PICK qr \in qrCodes :
            BeganWith(qr, e) /\ ~qr.sessionId.blanks /\ keys = KeysOf(e, qr.sessionId)
        BY <2>3 DEF BridgeHas
    <2>5. /\ new.from = "bridge" /\ new.text = text /\ new.exchange = e
          /\ new.payload = Encrypt(text, KeysOf(e, qr.sessionId).bridgeToClient)
        BY <2>2, <2>4
    <2>6. SealedByBridge(new)
        BY <2>4, <2>5 DEF SealedByBridge
    <2>7. SealedByBridge(new)'
        BY <2>6, StillHas
    <2> QED
        BY <1>1, <2>3, <2>5, <2>7 DEF SealedInv
<1>4. ASSUME NEW text \in Text, PhoneSeals(text) PROVE SealedInv'
    <2>1. PICK keys, e : keys = phone.sessionKeys /\ e = phone.exchange
        OBVIOUS
    <2>2. PICK new : new = [from |-> "phone", sessionId |-> phone.sessionId,
                            payload |-> Encrypt(text, keys.clientToBridge),
                            text |-> text, exchange |-> e]
        OBVIOUS
    <2>3. EncryptRelayPayload(text, keys.clientToBridge) = Encrypt(text, keys.clientToBridge)
        BY SealAlike
    <2>4. sealed' = sealed \cup {new} /\ PhoneHas(keys, e)
        BY <1>4, <2>1, <2>2, <2>3 DEF PhoneSeals, Seal, KeysInv
    <2>5. PICK qr \in qrCodes :
            BeganWith(qr, e) /\ keys = KeysOf(e, NormalizeSessionCode(qr.sessionId))
        BY <2>4 DEF PhoneHas
    <2>6. /\ new.from = "phone" /\ new.text = text /\ new.exchange = e
          /\ new.payload = Encrypt(text,
                KeysOf(e, NormalizeSessionCode(qr.sessionId)).clientToBridge)
        BY <2>2, <2>5
    <2>7. SealedByPhone(new)
        BY <2>5, <2>6 DEF SealedByPhone
    <2>8. SealedByPhone(new)'
        BY <2>7, StillHas
    <2> QED
        BY <1>1, <2>4, <2>6, <2>8 DEF SealedInv
<1>5. \/ sealed' \subseteq sealed
      \/ \E text \in Text : BridgeSeals(text) \/ PhoneSeals(text)
    BY DEF CryptoNext, cryptoVars, ForgetSession, StartBridge, PairWith, CompletePairing,
           LosesConfirm, BridgeOpens, PhoneOpens, Takes, LosesSealed
<1> QED
    BY <1>2, <1>3, <1>4, <1>5

\* CryptoInv is inductive.
LEMMA CryptoInvariant == CryptoSpec => []CryptoInv
<1>1. CryptoInit => CryptoInv
    BY DEF CryptoInit, CryptoInv, CryptoTypeOK, QrInv, ConfirmInv, KeysInv, SealedInv
<1>2. CryptoInv /\ [CryptoNext]_cryptoVars => CryptoInv'
    BY TypeStep, QrStep, ConfirmStep, KeysStep, SealedStep DEF CryptoInv
<1> QED
    BY <1>1, <1>2, PTL DEF CryptoSpec

\* The variables of the bridge's and the app's keys keep their types.
THEOREM CryptoTypeCorrect == CryptoSpec => []CryptoTypeOK
<1>1. CryptoInv => CryptoTypeOK
    BY DEF CryptoInv
<1> QED
    BY <1>1, CryptoInvariant, PTL

\* For any texts, codes, bridges and pairings: what was sealed opens on the
\* other side, as the text it was, exactly if both sides have their keys of one
\* exchange and the code has no small letters (encryption.ts:35-54,
\* crypto-client.ts:65-128, message-router.ts:145-148).
THEOREM CryptoSealedOpen == CryptoSpec => []SealedMessagesOpen
<1>1. CryptoInit => SealedMessagesOpen
    BY DEF CryptoInit, SealedMessagesOpen
<1>2. CryptoInv /\ SealedMessagesOpen /\ [CryptoNext]_cryptoVars => SealedMessagesOpen'
    <2> SUFFICES ASSUME CryptoInv, SealedMessagesOpen, [CryptoNext]_cryptoVars
                 PROVE  SealedMessagesOpen'
        OBVIOUS
    <2>1. ASSUME NEW m \in sealed, BridgeOpens(m) PROVE SealedMessagesOpen'
        <3>1. PICK keys, e : keys = bridgeKeys.keys /\ e = bridgeKeys.exchange
            OBVIOUS
        <3>2. BridgeHas(keys, e) /\ SealedByPhone(m)
            BY <2>1, <3>1 DEF BridgeOpens, Takes, CryptoInv, KeysInv, SealedInv
        <3>3. Decrypt(m.payload, keys.clientToBridge) =
                IF e = m.exchange /\ ~e.small THEN m.text ELSE Failed
            BY <3>2, OpensRight DEF CryptoInv
        <3>4. attempt' = [sealed |-> m, exchange |-> e,
                          result |-> Decrypt(m.payload, keys.clientToBridge)]
            BY <2>1, <3>1 DEF BridgeOpens
        <3> QED
            BY <3>3, <3>4 DEF SealedMessagesOpen
    <2>2. ASSUME NEW m \in sealed, PhoneOpens(m) PROVE SealedMessagesOpen'
        <3>1. PICK keys, e : keys = phone.sessionKeys /\ e = phone.exchange
            OBVIOUS
        <3>2. PhoneHas(keys, e) /\ SealedByBridge(m)
            BY <2>2, <3>1 DEF PhoneOpens, Takes, CryptoInv, KeysInv, SealedInv
        <3>3. DecryptRelayPayload(m.payload, keys.bridgeToClient) =
                IF e = m.exchange /\ ~e.small THEN m.text ELSE Failed
            BY <3>2, OpensRight DEF CryptoInv
        <3>4. attempt' = [sealed |-> m, exchange |-> e,
                          result |-> DecryptRelayPayload(m.payload, keys.bridgeToClient)]
            BY <2>2, <3>1 DEF PhoneOpens
        <3> QED
            BY <3>3, <3>4 DEF SealedMessagesOpen
    <2>3. \/ attempt' = attempt
          \/ \E m \in sealed : BridgeOpens(m) \/ PhoneOpens(m)
        BY DEF CryptoNext, cryptoVars, ForgetSession, StartBridge, PairWith, CompletePairing,
               LosesConfirm, BridgeSeals, PhoneSeals, Seal, LosesSealed
    <2> QED
        BY <2>1, <2>2, <2>3 DEF SealedMessagesOpen
<1> QED
    BY <1>1, <1>2, CryptoInvariant, PTL DEF CryptoSpec
===============================================================================
