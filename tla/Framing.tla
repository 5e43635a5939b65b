------------------------------- MODULE Framing -------------------------------
(***************************************************************************)
(* AgentCodec, protocol/codec.rs: a stream of bytes is read back as the    *)
(* messages that were written to it.  The peer is a client or the agent.   *)
(* It writes messages of any content, and may close the connection in the  *)
(* middle of one; and the connection may break.                            *)
(***************************************************************************)
EXTENDS Wire

CONSTANT Bodies  \* bound: for each message of the peer, the bodies to choose from

(* A length of more than Width bytes cannot be written. *)
ASSUME FramingAssumption ==
    /\ Len(Bodies) \in Nat
    /\ \A i \in 1..Len(Bodies) : \A body \in Bodies[i] :
          body \in Seq(Byte) /\ Len(body) < Power[Width]

VARIABLES
    sent,  \* history: the bodies that the peer has written
    lost,  \* history: bytes at the end of `sent` that did not arrive
    open,  \* whether the peer may still write
    wire,  \* bytes on their way
    pc,    \* what is read: "length" or "body"; or how it ended: Ok(None) is
           \* "closed", an error is "failed", one of the connection "broken"
    have,  \* the bytes that read_exact has by now
    need,  \* the bytes that it waits for
    got    \* the messages read

vars == <<sent, lost, open, wire, pc, have, need, got>>

Init ==
    /\ sent = <<>> /\ lost = 0 /\ open = TRUE /\ wire = <<>>
    /\ pc = "length" /\ have = <<>> /\ need = Width
    /\ got = <<>>

(* The peer.  A body that is empty or too long is sent as well. *)
Write(body) ==
    /\ open
    /\ sent' = Append(sent, body)
    /\ wire' = wire \o PutBlob(body)
    /\ UNCHANGED <<lost, open, pc, have, need, got>>

Close(missing) ==
    /\ open
    /\ open' = FALSE
    /\ lost' = missing
    /\ wire' = SubSeq(wire, 1, Len(wire) - missing)
    /\ UNCHANGED <<sent, pc, have, need, got>>

-----------------------------------------------------------------------------
(* read_exact of `need` bytes; it may get them in any pieces. *)
Reading == pc \in {"length", "body"} /\ Len(have) < need

Receive ==
    /\ Reading /\ wire # <<>>
    /\ have' = Append(have, Head(wire))
    /\ wire' = Tail(wire)
    /\ UNCHANGED <<sent, lost, open, pc, need, got>>

(* Mutant: an end within the body is an end as well. *)
EndOfStreamQuiet ==
    /\ Reading /\ wire = <<>> /\ ~open
    /\ pc' = "closed"
    /\ UNCHANGED <<sent, lost, open, wire, have, need, got>>

(* UnexpectedEof is Ok(None) in the length, and an error in the body. *)
EndOfStream ==
    /\ Reading /\ wire = <<>> /\ ~open
    /\ pc' = IF pc = "length" THEN "closed" ELSE "failed"
    /\ UNCHANGED <<sent, lost, open, wire, have, need, got>>

(* Any other error of either read_exact, such as ECONNRESET. *)
ReadFails ==
    /\ Reading
    /\ pc' = "broken"
    /\ UNCHANGED <<sent, lost, open, wire, have, need, got>>

(* Mutant: the length is not checked against the limit. *)
LengthReadAny ==
    /\ pc = "length" /\ Len(have) = need
    /\ IF Value(have) = 0
       THEN pc' = "failed" /\ UNCHANGED <<have, need>>
       ELSE pc' = "body" /\ have' = <<>> /\ need' = Value(have)
    /\ UNCHANGED <<sent, lost, open, wire, got>>

LengthRead ==
    /\ pc = "length" /\ Len(have) = need
    /\ IF Value(have) = 0 \/ Value(have) > MaxMessage
       THEN pc' = "failed" /\ UNCHANGED <<have, need>>
       ELSE pc' = "body" /\ have' = <<>> /\ need' = Value(have)
    /\ UNCHANGED <<sent, lost, open, wire, got>>

BodyRead ==
    /\ pc = "body" /\ Len(have) = need
    /\ got' = Append(got, Decode(have))
    /\ pc' = "length" /\ have' = <<>> /\ need' = Width
    /\ UNCHANGED <<sent, lost, open, wire>>

Next ==
    \/ Len(sent) < Len(Bodies) /\ \E body \in Bodies[Len(sent) + 1] : Write(body)
    \/ \E missing \in 0..Len(wire) : Close(missing)
    \/ Receive \/ EndOfStream \/ ReadFails \/ LengthRead \/ BodyRead

Spec == Init /\ [][Next]_vars

-----------------------------------------------------------------------------
(***************************************************************************)
(* Properties.                                                             *)
(***************************************************************************)
TypeOK ==
    /\ sent \in Seq(Seq(Byte)) /\ wire \in Seq(Byte)
    /\ lost \in Nat /\ open \in BOOLEAN
    /\ pc \in {"length", "body", "closed", "failed", "broken"}
    /\ have \in Seq(Byte) /\ need \in 1..MaxMessage /\ Len(have) <= need
    /\ got \in Seq([type : KnownTypes \cup {Unknown}, payload : Seq(Byte)])

WellFormed(body) == Len(body) \in 1..MaxMessage

(* Where in the stream each message ends. *)
Ends(bodies) ==
    LET end[i \in 0..Len(bodies)] ==
            IF i = 0 THEN 0 ELSE end[i - 1] + Width + Len(bodies[i])
    IN  end

(* The bytes of the messages behind the i-th one. *)
Behind(i) == Ends(sent)[Len(sent)] - Ends(sent)[i]

(***************************************************************************)
(* The reader never loses its place: what it has read are the messages     *)
(* written, none cut, merged, repeated or left out.  It reports an end     *)
(* only when all that arrived whole has been read, and, unless it is the   *)
(* connection that breaks, an error only at a message that is cut in its   *)
(* body, empty, or too long; the first of these is never read past.        *)
(***************************************************************************)
DeliveredAsSent ==
    /\ Len(got) <= Len(sent)
    /\ \A i \in 1..Len(got) : WellFormed(sent[i]) /\ got[i] = Decode(sent[i])
    /\ pc = "closed" =>
          ~open /\ (Len(got) < Len(sent) => Behind(Len(got)) - lost < Width)
    /\ pc = "failed" =>
          LET i == Len(got) + 1
          IN  i <= Len(sent) /\ (WellFormed(sent[i]) => ~open /\ Behind(i) < lost)

Latest == got[Len(got)]

(* What the filter keeps of an answer: the identities that it allows. *)
Kept(identities, allowed) ==
    LET kept[i \in 0..Len(identities)] ==
            IF i = 0 THEN <<>>
            ELSE IF identities[i] \in allowed THEN Append(kept[i - 1], identities[i])
            ELSE kept[i - 1]
    IN  kept[Len(identities)]

Clean(msg) == \A i \in 1..Len(msg.payload) : msg.payload[i] \notin Malformed

(***************************************************************************)
(* Whatever the filter keeps of an answer, the client reads it as this     *)
(* list: it is framed right, and parses to the same keys and comments.     *)
(* Only a comment that is not UTF-8 grows, and may grow beyond the limit   *)
(* of a blob; without such comments no limit is ever exceeded.             *)
(***************************************************************************)
Readable(identities) == \A id \in ToSet(identities) : Len(id.comment) <= MaxBlob

RebuiltReadsBack ==
    got # <<>> /\ ParseIdentities(Latest) # Error =>
        \A allowed \in SUBSET ToSet(ParseIdentities(Latest)) :
            LET kept == Kept(ParseIdentities(Latest), allowed)
                frame == Encode(Build(kept))
                body == From(frame, Width + 1)
            IN  /\ Value(frame) = Len(body)
                /\ Readable(kept) => ParseIdentities(Decode(body)) = kept
                /\ Clean(Latest) => WellFormed(body) /\ Readable(kept)

(***************************************************************************)
(* A list is read from the answer alone: written again it is what the      *)
(* answer begins with, so no key or comment was made up from a count or a  *)
(* length that lies, and none was skipped.                                 *)
(***************************************************************************)
ParsedIsInAnswer ==
    got # <<>> /\ Clean(Latest) /\ ParseIdentities(Latest) # Error =>
        IsPrefix(Build(ParseIdentities(Latest)).payload, Latest.payload)

(***************************************************************************)
(* Listing and signing name keys alike: a sign request is for a key of the *)
(* list before it exactly if it begins with that key as the list holds it. *)
(***************************************************************************)
SignNamesListedKey ==
    Len(got) = 2 /\ ParseIdentities(got[1]) # Error /\ got[2].type = SignType =>
        \A id \in ToSet(ParseIdentities(got[1])) :
            SignKey(got[2]) = id.key <=> IsPrefix(PutBlob(id.key), got[2].payload)

(***************************************************************************)
(* "Pass through other messages" (Proxy::process_request): what is passed  *)
(* on is what was received.                                                *)
(***************************************************************************)
PassedOnUnchanged == \A i \in 1..Len(got) : Encode(got[i]) = PutBlob(sent[i])
=============================================================================
