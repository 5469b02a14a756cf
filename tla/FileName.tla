------------------------------ MODULE FileName ------------------------------
(***************************************************************************)
(* What becomes of a file name between DatagramHeader::serialize, which    *)
(* puts it into a field of FILE_NAME_LEN bytes, and deserialize.           *)
(*                                                                         *)
(* A string is the sequence of the bytes of its characters in UTF-8; a     *)
(* byte is its character and its place in it.  This is the name that       *)
(* WireName stands for in module FileTransfer.                             *)
(***************************************************************************)
EXTENDS Integers, Sequences, FiniteSets

CONSTANTS
  Width,         \* Width[c] is the number of bytes of character c in UTF-8
  Whitespace,    \* the characters for which is_whitespace holds
  FileNameLen,   \* FILE_NAME_LEN, 256 in the code
  FileNames      \* the names that files may have

Char == DOMAIN Width

(* No file name holds the character NUL.                                   *)
Nul == [char |-> "nul", byte |-> 1]

Utf8Byte == UNION {[char : {c}, byte : 1 .. Width[c]] : c \in Char}

Follows(b, a) == b.char = a.char /\ b.byte = a.byte + 1

(* What str::from_utf8 accepts: whole characters, their bytes in order.    *)
IsUtf8(s) ==
  \A i \in 1 .. Len(s) :
    /\ s[i].byte > 1 => i > 1 /\ Follows(s[i], s[i - 1])
    /\ s[i].byte < Width[s[i].char] => i < Len(s) /\ Follows(s[i + 1], s[i])

ASSUME FileNameAssumption ==
  /\ \A c \in Char : Width[c] \in 1 .. 4
  /\ Nul.char \notin Char
  /\ FileNameLen \in Nat \ {0}
  /\ FileNames \subseteq {s \in Seq(Utf8Byte) : IsUtf8(s)}

VARIABLES
  name,       \* the argument of DatagramHeader::new
  end,        \* of truncate_utf8
  at,         \* where the iterator over its characters is
  file_name,  \* of serialize: what the filter has let through
  field,      \* the field of the serialized header
  result,     \* the name that deserialize returns
  step        \* "truncate", "filter", "deserialize", "done", "invalid_utf8"

nameVars == <<name, end, at, file_name, field, result, step>>

NameInit ==
  /\ name \in FileNames
  /\ end = FileNameLen
  /\ at = 0
  /\ file_name = << >>
  /\ field = << >>
  /\ result = << >>
  /\ step = "truncate"

(* str::is_char_boundary, for an index within the string.                  *)
IsCharBoundary(s, i) == i \in {0, Len(s)} \/ s[i + 1].byte = 1

(* The test at the top of truncate_utf8.                                   *)
KeepWhole ==
  /\ step = "truncate"
  /\ Len(name) <= FileNameLen
  /\ end' = Len(name)
  /\ step' = "filter"
  /\ UNCHANGED <<name, at, file_name, field, result>>

(* Mutant: the boundary is tested at the last byte kept.                   *)
AtBoundaryOneEarly == IsCharBoundary(name, end - 1)

AtBoundary == IsCharBoundary(name, end)

MoveBack ==
  /\ step = "truncate"
  /\ Len(name) > FileNameLen
  /\ ~AtBoundary
  /\ end' = end - 1
  /\ UNCHANGED <<name, at, file_name, field, result, step>>

Cut ==
  /\ step = "truncate"
  /\ Len(name) > FileNameLen
  /\ AtBoundary
  /\ step' = "filter"
  /\ UNCHANGED <<name, end, at, file_name, field, result>>

(* Chars::next: the first byte of a character tells its width.             *)
NextChar == name[at + 1].char

(* Filter and collect: one character of the truncated name.                *)
CollectChar ==
  /\ step = "filter"
  /\ at < end
  /\ at' = at + Width[NextChar]
  /\ file_name' = IF NextChar \in Whitespace
                    THEN file_name
                    ELSE file_name \o SubSeq(name, at + 1, at + Width[NextChar])
  /\ UNCHANGED <<name, end, field, result, step>>

(* Mutant: the padding is computed before the whitespace is removed.       *)
PaddingOfTruncated == FileNameLen - end

Padding == FileNameLen - Len(file_name)

Serialize ==
  /\ step = "filter"
  /\ at >= end
  /\ field' = file_name \o [i \in 1 .. Padding |-> Nul]
  /\ step' = "deserialize"
  /\ UNCHANGED <<name, end, at, file_name, result>>

Nuls == {i \in 1 .. Len(field) : field[i] = Nul}

FirstNul == CHOOSE i \in Nuls : \A j \in Nuls : i <= j

(* Mutant: a field without padding is taken for an empty one.              *)
EndOrZero == IF Nuls = {} THEN 0 ELSE FirstNul - 1

(* position of the first NUL, or the whole field if there is none.         *)
RawNameEnd == IF Nuls = {} THEN FileNameLen ELSE FirstNul - 1

RawName == SubSeq(field, 1, RawNameEnd)

Deserialize ==
  /\ step = "deserialize"
  /\ IF IsUtf8(RawName)
       THEN result' = RawName /\ step' = "done"
       ELSE result' = << >> /\ step' = "invalid_utf8"
  /\ UNCHANGED <<name, end, at, file_name, field>>

Finished == step \in {"done", "invalid_utf8"} /\ UNCHANGED nameVars

NameNext ==
  \/ KeepWhole \/ MoveBack \/ Cut \/ CollectChar \/ Serialize \/ Deserialize
  \/ Finished

NameSpec == NameInit /\ [][NameNext]_nameVars

-----------------------------------------------------------------------------
(* Whatever is removed from the name, the field keeps its size, so that    *)
(* the payload starts where receive expects it.                            *)
FieldHasItsSize ==
  step \in {"deserialize", "done", "invalid_utf8"} => Len(field) = FileNameLen

(* "Ensuring that no UTF-8 character is split": no header that serialize   *)
(* has made is refused by deserialize, whatever the name.                  *)
NameIsAccepted == step # "invalid_utf8"

(* The bytes among the first k that do not belong to whitespace.           *)
Kept(k) == {i \in 1 .. k : name[i].char \notin Whitespace}

(* s is made of the bytes of Kept(k), each at the place that its rank      *)
(* among them gives it.                                                    *)
IsFiltered(s, k) ==
  /\ Len(s) = Cardinality(Kept(k))
  /\ \A i \in Kept(k) : s[Cardinality(Kept(i))] = name[i]

(* The name received is the longest beginning of the name sent that fits   *)
(* the field, a full field included, and ends with a whole character,      *)
(* without its whitespace.                                                 *)
NameIsLongestPrefix ==
  step = "done" =>
    \E k \in 0 .. Len(name) :
      /\ k <= FileNameLen
      /\ IsCharBoundary(name, k)
      /\ \A m \in k + 1 .. Len(name) : IsCharBoundary(name, m) => m > FileNameLen
      /\ IsFiltered(result, k)
=============================================================================
