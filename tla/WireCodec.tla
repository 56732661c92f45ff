----------------------------- MODULE WireCodec -----------------------------
(***************************************************************************)
(* The binary codec of the cc-helper IPC protocol, _ipc_protocol.py:       *)
(* Encoder, Decoder, encode_header/decode_header, and error_from_code of   *)
(* errors.py.                                                              *)
(*                                                                         *)
(* The Encoder is pure (it appends struct.pack results to a list), so it   *)
(* is a set of operators from a message -- a sequence of typed fields --   *)
(* to bytes.  The Decoder carries state (_buf, _pos) and is a state        *)
(* machine: one action per Decoder method, reading the next field of the   *)
(* message in the order the backend's code calls them.  The buffer it      *)
(* reads is the encoding of the message or any strict prefix of it.        *)
(*                                                                         *)
(* A byte is a digit of radix ByteBase.  struct.pack/unpack are modelled   *)
(* by what they do for any radix: big-endian digits, two's complement for  *)
(* the signed formats, struct.error outside the format's range.  A         *)
(* character is a model value whose UTF-8 encoding is Utf8[c]; decoding    *)
(* is the inverse of that table and fails on anything else.                *)
(***************************************************************************)
EXTENDS Integers, Sequences, SequencesExt

CONSTANTS
    ByteBase,        \* values of one byte (256 in the code)
    Chars,           \* characters that strings are made of
    Utf8,            \* Utf8[c]: the bytes str.encode("utf-8") gives for c
    NanosPerSecond,  \* the 1e9 of instance_options
    Messages         \* the messages checked: sequences of fields

ASSUME ByteBase >= 2
ASSUME \A c \in Chars : Utf8[c] # <<>>
\* UTF-8 is prefix-free: no character's bytes begin another's.
ASSUME \A c, d \in Chars : c # d => ~IsPrefix(Utf8[c], Utf8[d])

Bytes == 0 .. ByteBase - 1

(***************************************************************************)
(* Fields.  A message is a sequence of fields [t, w, <t>]: the type of the *)
(* Encoder/Decoder method, the width in bytes of an integer, the value.  *)
(***************************************************************************)
UInt(w, v)  == [t |-> "uint", w |-> w, uint |-> v]
SInt(w, v)  == [t |-> "int", w |-> w, int |-> v]
Bool(v)     == [t |-> "bool", w |-> 1, bool |-> v]
Str(s)      == [t |-> "str", w |-> 4, str |-> s]
Blob(b)     == [t |-> "bytes", w |-> 4, bytes |-> b]
StrSlice(ss) == [t |-> "strs", w |-> 4, strs |-> ss]
\* an error structure as the helper writes it: code, message, op, path
Err(code, msg, op, path) ==
    [t |-> "err", w |-> 1, err |-> [code |-> code, message |-> msg, op |-> op, path |-> path]]

\* the value of a field (kept under its type's name so that TLC can
\* compare fields of different types)
Val(f) == f[f.t]

(***************************************************************************)
(* struct.pack: "!B", "!H", "!I", "!Q" and "!i", "!q".                      *)
(***************************************************************************)
RECURSIVE BigEndian(_, _)
BigEndian(v, w) ==
    IF w = 0 THEN <<>> ELSE BigEndian(v \div ByteBase, w - 1) \o <<v % ByteBase>>

\* the range struct.pack accepts for an unsigned format of w bytes
FitsUnsigned(v, w) == v \in 0 .. ByteBase^w - 1

\* the range of a signed format; the bytes are the two's complement
FitsSigned(v, w) == v \in -(ByteBase^w \div 2) .. ByteBase^w \div 2 - 1

Utf8Encode(s) == FlattenSeq([i \in 1 .. Len(s) |-> Utf8[s[i]]])

\* Encoder.string: 4-byte length of the UTF-8 data, then the data
EncodeString_charlen(s) == BigEndian(Len(s), 4) \o Utf8Encode(s)
EncodeString(s) == LET data == Utf8Encode(s) IN BigEndian(Len(data), 4) \o data

\* error structure as the helper encodes it: no strings after code 0,
\* an absent op or path sent as the empty string
EncodeError(e) ==
    BigEndian(e.code, 1)
      \o IF e.code = 0 THEN <<>>
         ELSE EncodeString(e.message) \o EncodeString(e.op) \o EncodeString(e.path)

EncodeField(f) ==
    CASE f.t = "uint"  -> BigEndian(Val(f), f.w)
      [] f.t = "int"   -> BigEndian(Val(f) % ByteBase^f.w, f.w)
      [] f.t = "bool"  -> <<IF Val(f) THEN 1 ELSE 0>>
      [] f.t = "str"   -> EncodeString(Val(f))
      [] f.t = "bytes" -> BigEndian(Len(Val(f)), 4) \o Val(f)
      [] f.t = "strs"  -> BigEndian(Len(Val(f)), 4)
                             \o FlattenSeq([i \in 1 .. Len(Val(f)) |-> EncodeString(Val(f)[i])])
      [] f.t = "err"   -> EncodeError(Val(f))

\* struct.pack raises struct.error for a value outside its format; every
\* length prefix is an "!I"
Packable(f) ==
    CASE f.t = "uint"  -> FitsUnsigned(Val(f), f.w)
      [] f.t = "int"   -> FitsSigned(Val(f), f.w)
      [] f.t = "str"   -> FitsUnsigned(Len(Utf8Encode(Val(f))), 4)
      [] f.t = "bytes" -> FitsUnsigned(Len(Val(f)), 4)
      [] f.t = "strs"  -> FitsUnsigned(Len(Val(f)), 4)
                           /\ \A i \in 1 .. Len(Val(f)) : FitsUnsigned(Len(Utf8Encode(Val(f)[i])), 4)
      [] OTHER         -> TRUE

\* Encoder.get_bytes: the parts joined, or struct.error from the first
\* pack that rejects its value
Encodable(m) == \A i \in 1 .. Len(m) : Packable(m[i])
Encode(m) == FlattenSeq([i \in 1 .. Len(m) |-> EncodeField(m[i])])

(***************************************************************************)
(* Compound encoders: the fields they write, in order.                     *)
(***************************************************************************)
\* int(timeout_seconds * 1e9) for a timeout given as num/den seconds:
\* int() rounds toward zero
TimeoutNanos(t) ==
    LET n == t[1] * NanosPerSecond
    IN IF n >= 0 THEN n \div t[2] ELSE -((-n) \div t[2])

MountConfig(m) == <<Str(m.tag), Str(m.host_path), Bool(m.writable)>>

InstanceOptions(memory_mb, cpus, timeout, user, dmesg, mounts) ==
    <<UInt(8, memory_mb), SInt(4, cpus), UInt(8, TimeoutNanos(timeout)),
      Str(user), Bool(dmesg), UInt(4, Len(mounts))>>
      \o FlattenSeq([i \in 1 .. Len(mounts) |-> MountConfig(mounts[i])])

SnapshotOptions(excludes, cache_dir) == <<StrSlice(excludes), Str(cache_dir)>>

\* build_args is a dict: a sequence of (key, value) pairs in insertion order
DockerfileOptions(dockerfile, context_dir, cache_dir, build_args) ==
    <<Blob(dockerfile), Str(context_dir), Str(cache_dir), UInt(4, Len(build_args))>>
      \o FlattenSeq([i \in 1 .. Len(build_args) |->
                       <<Str(build_args[i][1]), Str(build_args[i][2])>>])

\* encode_header / decode_header: struct "!HI"
Header(msg_type, payload_len) == <<UInt(2, msg_type), UInt(4, payload_len)>>

\* Decoder.file_info and Decoder.dir_entry: the dict literals' fields are
\* read left to right
FileInfo(name, size, mode, mtime, is_dir, is_symlink) ==
    <<Str(name), SInt(8, size), UInt(4, mode), SInt(8, mtime), Bool(is_dir), Bool(is_symlink)>>

DirEntry(name, is_dir, mode) == <<Str(name), Bool(is_dir), UInt(4, mode)>>

(***************************************************************************)
(* error_from_code: _ERROR_MAP, and CCError for any other code.            *)
(***************************************************************************)
ERROR_MAP ==
    [c \in 1 .. 9 |->
        <<"InvalidHandleError", "InvalidArgumentError", "NotRunningError",
          "AlreadyClosedError", "TimeoutError", "HypervisorUnavailableError",
          "IOError", "NetworkError", "CancelledError">>[c]]

ErrorFromCode(code, message, op, path) ==
    [cls |-> IF code \in DOMAIN ERROR_MAP THEN ERROR_MAP[code] ELSE "CCError",
     code |-> code, message |-> message, op |-> op, path |-> path]

(***************************************************************************)
(* Decoder readers.  Each takes the buffer b and the position p (bytes     *)
(* consumed, as _pos) and gives [ok, v, p]: the value and the new          *)
(* position, or ok = FALSE and v the exception raised.  Python's None is   *)
(* {} and a present optional x is {x}.                                     *)
(***************************************************************************)
Raise(e, p) == [ok |-> FALSE, v |-> e, p |-> p]
Ok(v, p) == [ok |-> TRUE, v |-> v, p |-> p]

RECURSIVE FromBigEndian(_)
FromBigEndian(bs) ==
    IF bs = <<>> THEN 0 ELSE FromBigEndian(Front(bs)) * ByteBase + Last(bs)

\* bytes.decode("utf-8"): the characters whose encodings concatenate to bs
RECURSIVE Utf8Decode(_)
Utf8Decode(bs) ==
    IF bs = <<>> THEN {<<>>}
    ELSE LET cs == {c \in Chars : IsPrefix(Utf8[c], bs)}
         IN IF cs = {} THEN {}
            ELSE LET c == CHOOSE x \in cs : TRUE
                     rest == Utf8Decode(SubSeq(bs, Len(Utf8[c]) + 1, Len(bs)))
                 IN {<<c>> \o r : r \in rest}

\* an unsigned field unpacked with the signed format ("!i" for "!I")
ReadUnsigned_signed(b, p, w) ==
    IF p + w > Len(b) THEN Raise("ValueError", p)
    ELSE LET u == FromBigEndian(SubSeq(b, p + 1, p + w))
         IN Ok(IF u >= ByteBase^w \div 2 THEN u - ByteBase^w ELSE u, p + w)

\* uint8 .. uint64: _check(w), unpack, _pos += w
ReadUnsigned(b, p, w) ==
    IF p + w > Len(b) THEN Raise("ValueError", p)
    ELSE Ok(FromBigEndian(SubSeq(b, p + 1, p + w)), p + w)

\* int32, int64: the same bytes read as two's complement
ReadSigned(b, p, w) ==
    LET r == ReadUnsigned(b, p, w)
    IN IF ~r.ok \/ r.v < ByteBase^w \div 2 THEN r
       ELSE Ok(r.v - ByteBase^w, r.p)

\* decode_bool: uint8() != 0
ReadBool(b, p) ==
    LET r == ReadUnsigned(b, p, 1)
    IN IF r.ok THEN Ok(r.v # 0, r.p) ELSE r

\* read_bytes without _check(length): the slice stops at the end of the
\* buffer and _pos still moves length bytes on
ReadBytes_nocheck(b, p) ==
    LET n == ReadUnsigned(b, p, 4)
        end == IF n.p + n.v > Len(b) THEN Len(b) ELSE n.p + n.v
    IN IF ~n.ok THEN n ELSE Ok(SubSeq(b, n.p + 1, end), n.p + n.v)

\* read_bytes: uint32 length, _check(length), the slice
ReadBytes(b, p) ==
    LET n == ReadUnsigned(b, p, 4)
    IN IF ~n.ok THEN n
       ELSE IF n.p + n.v > Len(b) THEN Raise("ValueError", n.p)
       ELSE Ok(SubSeq(b, n.p + 1, n.p + n.v), n.p + n.v)

\* string: the same bytes, then .decode("utf-8")
ReadString(b, p) ==
    LET r == ReadBytes(b, p)
        s == Utf8Decode(r.v)
    IN IF ~r.ok THEN r
       ELSE IF s = {} THEN Raise("UnicodeDecodeError", r.p)
       ELSE Ok(CHOOSE x \in s : TRUE, r.p)

\* string_slice: uint32 count, then count strings
RECURSIVE ReadStrings(_, _, _)
ReadStrings(b, p, n) ==
    IF n = 0 THEN Ok(<<>>, p)
    ELSE LET s == ReadString(b, p)
             r == ReadStrings(b, s.p, n - 1)
         IN IF ~s.ok THEN s
            ELSE IF ~r.ok THEN r
            ELSE Ok(<<s.v>> \o r.v, r.p)

ReadStringSlice(b, p) ==
    LET n == ReadUnsigned(b, p, 4)
    IN IF n.ok THEN ReadStrings(b, n.p, n.v) ELSE n

\* string() or None
Optional(s) == IF s = <<>> THEN {} ELSE {s}

\* Decoder.error: uint8 code; None for ERR_CODE_OK; else message, op,
\* path, and error_from_code
ReadError(b, p) ==
    LET c == ReadUnsigned(b, p, 1)
        m == ReadString(b, c.p)
        o == ReadString(b, m.p)
        q == ReadString(b, o.p)
    IN CASE ~c.ok -> c
         [] c.v = 0 -> Ok({}, c.p)
         [] ~m.ok -> m
         [] ~o.ok -> o
         [] ~q.ok -> q
         [] OTHER -> Ok({ErrorFromCode(c.v, m.v, Optional(o.v), Optional(q.v))}, q.p)

(***************************************************************************)
(* What decoding a field gives back: the value itself, except for an       *)
(* error structure, which comes back as error_from_code's exception or     *)
(* None, with empty op and path as None.                                   *)
(***************************************************************************)
Decoded(f) ==
    IF f.t # "err" THEN Val(f)
    ELSE IF Val(f).code = 0 THEN {}
    ELSE {ErrorFromCode(Val(f).code, Val(f).message, Optional(Val(f).op), Optional(Val(f).path))}

DecodedAll(m) == [i \in 1 .. Len(m) |-> Decoded(m[i])]

(***************************************************************************)
(* The decoding of one response or request payload.  msg is what was       *)
(* encoded, buf the bytes the Decoder was built on, pos its _pos, out the  *)
(* values its methods returned so far, status "decoding" or the exception  *)
(* that ended it ("struct.error" when the Encoder already refused msg).    *)
(***************************************************************************)
VARIABLES msg, buf, pos, out, status

vars == <<msg, buf, pos, out, status>>

\* what each Decoder method returns
ValueType ==
    [uint  |-> Nat,
     int   |-> Int,
     bool  |-> BOOLEAN,
     str   |-> Seq(Chars),
     bytes |-> Seq(Bytes),
     strs  |-> Seq(Seq(Chars)),
     err   |-> SUBSET [cls : STRING, code : Nat, message : Seq(Chars),
                       op : SUBSET Seq(Chars), path : SUBSET Seq(Chars)]]

Statuses == {"decoding", "struct.error", "ValueError", "UnicodeDecodeError"}

TypeOK ==
    /\ msg \in Messages
    /\ buf \in Seq(Bytes)
    /\ pos \in Nat
    /\ Len(out) <= Len(msg)
    /\ \A i \in 1 .. Len(out) : out[i] \in ValueType[msg[i].t]
    /\ status \in Statuses

\* the Decoder is built on the Encoder's bytes, whole or cut short
Init ==
    /\ msg \in Messages
    /\ pos = 0
    /\ out = <<>>
    /\ IF Encodable(msg)
         THEN /\ buf \in {SubSeq(Encode(msg), 1, k) : k \in 0 .. Len(Encode(msg))}
              /\ status = "decoding"
         ELSE /\ buf = <<>>
              /\ status = "struct.error"

\* the field the next Decoder call reads
NextIs(t) == status = "decoding" /\ Len(out) < Len(msg) /\ msg[Len(out) + 1].t = t
Width == msg[Len(out) + 1].w

\* one Decoder method call: its value appended, or its exception
Apply(r) ==
    /\ IF r.ok THEN /\ out' = Append(out, r.v)
                    /\ pos' = r.p
                    /\ UNCHANGED status
               ELSE /\ status' = r.v
                    /\ UNCHANGED <<out, pos>>
    /\ UNCHANGED <<msg, buf>>

DecodeUnsigned   == NextIs("uint")  /\ Apply(ReadUnsigned(buf, pos, Width))
DecodeSigned     == NextIs("int")   /\ Apply(ReadSigned(buf, pos, Width))
DecodeBool       == NextIs("bool")  /\ Apply(ReadBool(buf, pos))
DecodeString     == NextIs("str")   /\ Apply(ReadString(buf, pos))
DecodeBytes      == NextIs("bytes") /\ Apply(ReadBytes(buf, pos))
DecodeStringSlice == NextIs("strs") /\ Apply(ReadStringSlice(buf, pos))
DecodeError      == NextIs("err")   /\ Apply(ReadError(buf, pos))

Next ==
    \/ DecodeUnsigned \/ DecodeSigned \/ DecodeBool \/ DecodeString
    \/ DecodeBytes \/ DecodeStringSlice \/ DecodeError

Spec == Init /\ [][Next]_vars

Finished == status = "decoding" /\ Len(out) = Len(msg)

-----------------------------------------------------------------------------
(***************************************************************************)
(* Round trip (Encoder then Decoder, the length prefixes of string and     *)
(* read_bytes, struct.pack's range check, two's complement, error_from_   *)
(* code): on the whole encoding every Decoder call succeeds, each returns  *)
(* the value that was encoded, and the last one ends exactly at the end    *)
(* of the buffer.  Decoded fields are right even on a cut buffer.          *)
(***************************************************************************)
RoundTrip ==
    /\ status # "struct.error" => IsPrefix(out, DecodedAll(msg))
    /\ buf = Encode(msg) /\ status # "struct.error" =>
          /\ status = "decoding"
          /\ Finished => pos = Len(buf)

(***************************************************************************)
(* Decoder._check: a buffer cut anywhere before the end of the encoding    *)
(* never decodes as a whole message; some call raises instead of reading   *)
(* past the end, and _pos never passes the end.                            *)
(***************************************************************************)
TruncationDetected ==
    /\ pos <= Len(buf)
    /\ (status # "struct.error" /\ Len(buf) < Len(Encode(msg))) => ~Finished
=============================================================================
