-------------------------------- MODULE Wire --------------------------------
(***************************************************************************)
(* The bytes of the SSH agent protocol, protocol/message.rs: how a message *)
(* is framed, how an answer with identities and a sign request are read,   *)
(* and how the filtered answer is built.                                   *)
(*                                                                         *)
(* Bytes, the width of a number and the limits are small: a byte is below  *)
(* Base, and a number has Width bytes where the code has a u32.            *)
(***************************************************************************)
EXTENDS SequencesExt

CONSTANTS
    Base, Width,
    MaxMessage,     \* MAX_MESSAGE_SIZE
    MaxBlob,        \* MAX_BLOB_SIZE
    MaxIdentities,  \* MAX_IDENTITIES
    KnownTypes,     \* the type bytes of the table
    AnswerType, SignType,
    Malformed,      \* bytes that are not UTF-8
    Replacement,    \* U+FFFD, three bytes
    Error

Byte == 0..(Base - 1)

Identity == [key : Seq(Byte), comment : Seq(Byte)]

(* In the loop of parse_identities: what is left, and what has been read. *)
Reader == [buf : Seq(Byte), identities : Seq(Identity)]

(* Base to the k. *)
Power[k \in 0..Width] == IF k = 0 THEN 1 ELSE Base * Power[k - 1]

(* Every limit is far below the range of a u32, also when 16 MB of bytes    *)
(* are replaced by three each.                                             *)
ASSUME WireAssumption ==
    /\ Base \in Nat \ {0, 1} /\ Width \in Nat \ {0}
    /\ KnownTypes \subseteq Byte \ {0} /\ {AnswerType, SignType} \subseteq KnownTypes
    /\ Malformed \subseteq Byte
    /\ Replacement \in Seq(Byte \ Malformed) /\ Len(Replacement) <= 3
    /\ Error \notin Seq(Byte) \cup Reader
    /\ MaxBlob \in Nat /\ MaxMessage \in Nat /\ MaxIdentities \in Nat
    /\ Width <= MaxMessage /\ 4 * MaxMessage < Power[Width]
    /\ MaxBlob < Power[Width] /\ MaxIdentities < Power[Width]

(* put_u32 *)
Field(n) == [i \in 1..Width |-> (n \div Power[Width - i]) % Base]

(* get_u32, which is called only where Width bytes are left *)
Value(bytes) ==
    LET read[i \in 0..Width] == IF i = 0 THEN 0 ELSE read[i - 1] * Base + bytes[i]
    IN  read[Width]

From(bytes, i) == SubSeq(bytes, i, Len(bytes))

-----------------------------------------------------------------------------
(***************************************************************************)
(* Messages.                                                               *)
(***************************************************************************)
Unknown == 0

(* MessageType::from: every byte that is not in the table becomes one type, *)
(* which is written back as the byte 0.                                    *)
AsType(byte) == IF byte \in KnownTypes THEN byte ELSE Unknown

Encode(msg) == Field(1 + Len(msg.payload)) \o <<msg.type>> \o msg.payload

Decode(data) == [type |-> AsType(Head(data)), payload |-> Tail(data)]

-----------------------------------------------------------------------------
(***************************************************************************)
(* A length and as many bytes: a key blob, or a comment.                   *)
(***************************************************************************)
HasBlob(buf) ==
    /\ Len(buf) >= Width
    /\ Value(buf) <= MaxBlob
    /\ Len(buf) - Width >= Value(buf)

Blob(buf) == SubSeq(buf, Width + 1, Width + Value(buf))
AfterBlob(buf) == From(buf, Width + 1 + Value(buf))

PutBlob(bytes) == Field(Len(bytes)) \o bytes

-----------------------------------------------------------------------------
(***************************************************************************)
(* Identities.                                                             *)
(***************************************************************************)
(* String::from_utf8_lossy *)
Lossy(bytes) ==
    FlattenSeq([i \in 1..Len(bytes) |->
        IF bytes[i] \in Malformed THEN Replacement ELSE <<bytes[i]>>])

(* Mutant: the list ends where the bytes end. *)
ReadIdentityOrStop(reader) ==
    IF ~HasBlob(reader.buf) THEN reader
    ELSE IF ~HasBlob(AfterBlob(reader.buf)) THEN reader
    ELSE [buf |-> AfterBlob(AfterBlob(reader.buf)),
          identities |-> Append(reader.identities,
                                [key |-> Blob(reader.buf),
                                 comment |-> Lossy(Blob(AfterBlob(reader.buf)))])]

(* One round of the loop *)
ReadIdentity(reader) ==
    IF reader = Error THEN Error
    ELSE IF ~HasBlob(reader.buf) THEN Error
    ELSE IF ~HasBlob(AfterBlob(reader.buf)) THEN Error
    ELSE [buf |-> AfterBlob(AfterBlob(reader.buf)),
          identities |-> Append(reader.identities,
                                [key |-> Blob(reader.buf),
                                 comment |-> Lossy(Blob(AfterBlob(reader.buf)))])]

(* parse_identities.  Bytes behind the last identity are ignored. *)
ParseIdentities(msg) ==
    IF msg.type # AnswerType \/ Len(msg.payload) < Width THEN Error
    ELSE IF Value(msg.payload) > MaxIdentities THEN Error
    ELSE LET start == [buf |-> From(msg.payload, Width + 1), identities |-> <<>>]
             count == Value(msg.payload)
             after[i \in 0..count] == IF i = 0 THEN start ELSE ReadIdentity(after[i - 1])
         IN  IF after[count] = Error THEN Error ELSE after[count].identities

(* Mutant: a comment is written with the length of the key. *)
BuildWithKeyLength(identities) ==
    [type |-> AnswerType,
     payload |-> Field(Len(identities)) \o
         FlattenSeq([i \in 1..Len(identities) |->
             PutBlob(identities[i].key) \o Field(Len(identities[i].key))
                 \o identities[i].comment])]

(* build_identities_answer *)
PutIdentity(id) == PutBlob(id.key) \o PutBlob(id.comment)

PutIdentities(identities) ==
    FlattenSeq([i \in 1..Len(identities) |-> PutIdentity(identities[i])])

Build(identities) ==
    [type |-> AnswerType, payload |-> Field(Len(identities)) \o PutIdentities(identities)]

(* Mutant: the key is all that follows its length. *)
SignKeyToTheEnd(msg) ==
    IF msg.type # SignType \/ ~HasBlob(msg.payload) THEN Error
    ELSE From(msg.payload, Width + 1)

(* parse_sign_request_key *)
SignKey(msg) ==
    IF msg.type # SignType \/ ~HasBlob(msg.payload) THEN Error ELSE Blob(msg.payload)
=============================================================================
