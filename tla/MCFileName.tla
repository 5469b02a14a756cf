----------------------------- MODULE MCFileName -----------------------------
(* An instance of FileName for model checking: characters of one, two and  *)
(* three bytes, a space and the ideographic space, which has three bytes,  *)
(* and all the names of up to four characters.                             *)
EXTENDS FileName, SequencesExt

Utf8Width ==
  [c \in {"a", "e_acute", "euro", "space", "wide_space"} |->
     IF c \in {"a", "space"} THEN 1 ELSE IF c = "e_acute" THEN 2 ELSE 3]

Encoded(chars) ==
  FlattenSeq([i \in 1 .. Len(chars) |->
                [j \in 1 .. Utf8Width[chars[i]] |-> [char |-> chars[i], byte |-> j]]])

UpToFourChars ==
  {Encoded(chars) : chars \in SeqOf(DOMAIN Utf8Width, 4) \ {<< >>}}
=============================================================================
