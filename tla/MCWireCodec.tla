---------------------------- MODULE MCWireCodec ----------------------------
(***************************************************************************)
(* WireCodec for TLC.  Bytes have radix 12: the largest 8-byte value,      *)
(* 12^8 - 1, still fits TLC's integers, and a uint8 holds every error code *)
(* (1 .. 9) and unknown codes above them.  Each integer width is checked   *)
(* at its boundaries and one step past them; strings mix a one-byte and a  *)
(* two-byte character.                                                     *)
(***************************************************************************)
EXTENDS WireCodec

CONSTANTS a, e

MCByteBase == 12
MCChars == {a, e}
\* a is ASCII; e is a lead byte and a continuation byte
MCUtf8 == (a :> <<1>>) @@ (e :> <<11, 8>>)
MCNanosPerSecond == 1000

Strings == {<<>>, <<a>>, <<e>>, <<e, a>>}

\* every width at 0, its largest value and one past each end
UIntFields ==
    UNION {{UInt(w, v) : v \in {-1, 0, MCByteBase^w - 1, MCByteBase^w}} : w \in {1, 2, 4, 8}}
SIntFields ==
    UNION {{SInt(w, v) : v \in {-(MCByteBase^w \div 2) - 1, -(MCByteBase^w \div 2), -1, 0,
                                 MCByteBase^w \div 2 - 1, MCByteBase^w \div 2}} : w \in {4, 8}}

Scalars ==
    {<<f>> : f \in UIntFields \cup SIntFields \cup {Bool(FALSE), Bool(TRUE)}}

Strs == {<<Str(s), Str(t)>> : s, t \in Strings}

Blobs == {<<Blob(b), UInt(1, 0)>> : b \in {<<>>, <<0>>, <<11, 0>>}}

Slices == {<<StrSlice(ss)>> : ss \in {<<>>, <<<<e>>>>, <<<<>>, <<a>>>>}}

\* a status byte of 0 followed by a result, as _check_error reads it
Errors ==
    {<<Err(c, <<e>>, op, <<>>), UInt(1, 0)>> : c \in {0, 1, 9, 10}, op \in {<<>>, <<a>>}}

Headers == {Header(t, n) : t \in {0, MCByteBase^2 - 1, MCByteBase^2}, n \in {0, MCByteBase^4}}

Compounds ==
    {InstanceOptions(256, 1, t, <<a>>, FALSE, ms) :
        t \in {<<0, 1>>, <<3, 2>>, <<-1, 2>>, <<500000, 1>>},
        ms \in {<<>>, <<[tag |-> <<a>>, host_path |-> <<>>, writable |-> TRUE]>>}}
    \cup {SnapshotOptions(<<<<a>>>>, <<e>>),
          DockerfileOptions(<<0>>, <<a>>, <<>>, <<<<<<a>>, <<e>>>>>>),
          FileInfo(<<e>>, -1, 420, 0, FALSE, TRUE),
          DirEntry(<<a>>, TRUE, 493)}

MCMessages == Scalars \cup Strs \cup Blobs \cup Slices \cup Errors \cup Headers \cup Compounds
=============================================================================
