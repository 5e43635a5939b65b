------------------------------ MODULE MCFraming ------------------------------
(***************************************************************************)
(* Framing with bytes 0..7 and numbers of two bytes.  The first message is *)
(* a plain one or an answer, the second one anything that the parsers tell *)
(* apart: counts and lengths that lie, bodies cut short or with bytes      *)
(* behind, bodies of every size around the limit.                          *)
(***************************************************************************)
EXTENDS Framing

MCReplacement == <<6, 6, 6>>

Keys == {<<>>, <<1>>, <<2, 1>>}
Comments == {<<>>, <<7>>, <<1>>}

(* A length, right or off by one or above the limit, and the bytes. *)
Lying(blobs) ==
    UNION {{Field(k) \o b : k \in {n \in {Len(b) - 1, Len(b), Len(b) + 1, MaxBlob + 1} : n >= 0}} :
              b \in blobs}

Identities == {PutBlob(k) \o PutBlob(c) : k \in Keys, c \in Comments}
Short == {PutBlob(<<>>) \o PutBlob(<<>>), PutBlob(<<1>>) \o PutBlob(<<7>>)}

Lists ==
    {Field(n) : n \in 0..(MaxIdentities + 1)}
      \cup {Field(n) \o x \o y : n \in 0..2, x \in Lying(Keys), y \in Lying(Comments)}
      \cup {Field(n) \o x \o y : n \in 1..(MaxIdentities + 1), x \in Identities, y \in Short}
      \cup {Field(3) \o PutBlob(<<>>) \o PutBlob(<<>>) \o PutBlob(<<>>) \o PutBlob(<<>>)
                      \o PutBlob(<<>>) \o PutBlob(<<>>)}
      \cup {Field(1) \o PutBlob(<<>>) \o PutBlob([i \in 1..n |-> 7]) : n \in 5..6}

Signs == {x \o y : x \in Lying(Keys), y \in {<<>>, <<1>>}}

MCFirst == {<<1>>} \cup {<<AnswerType>> \o Field(1) \o PutBlob(k) \o PutBlob(<<1>>) : k \in Keys}

MCSecond ==
    {<<>>, <<AnswerType>>, <<SignType>>, <<AnswerType, 1>>, <<SignType, 1>>}
      \cup {<<AnswerType>> \o x : x \in Lists} \cup {<<SignType>> \o x : x \in Signs}
      \cup {<<t>> \o x : t \in {0, 1, 4}, x \in {<<>>, <<1>>}}
      \cup {[i \in 1..n |-> 1] : n \in (MaxMessage - 1)..(MaxMessage + 1)}

MCBodies == <<MCFirst, MCSecond>>
=============================================================================
