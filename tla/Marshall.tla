------------------------------ MODULE Marshall ------------------------------
(***************************************************************************)
(* The buffers of the RPC library (rpc/marshall.h) and the stubs around    *)
(* them (rpc/rpc.h): what rpcc::call writes, what the handlers that        *)
(* rpcs::reg makes read, and the way back of the reply.                    *)
(*                                                                         *)
(* A buffer is a sequence of cells.  An int fills one cell, an unsigned    *)
(* long long two, a character of a string one.  The functions that are     *)
(* only in the archive librpc (pack, rawbytes, okdone, call1, dispatch)    *)
(* are modelled from how the headers use them; RPC_CHECKSUMMING is not     *)
(* defined by the makefile.                                                *)
(***************************************************************************)
EXTENDS Integers, Sequences, SequencesExt

rpc_sz_t == 1                     \* the cell the channel fills
RPC_HEADER_SZ == Max({5, 2}) + rpc_sz_t

unmarshal_args_failure == -2      \* rpc_const

(***************************************************************************)
(* class marshall                                                          *)
(***************************************************************************)

marshall ==
  [buf |-> [i \in 1 .. RPC_HEADER_SZ |-> 0], ind |-> RPC_HEADER_SZ]

\* Several calls of pack: the cells go where _ind points, over what is there.
pack(m, raw) ==
  LET end == m.ind + Len(raw) IN
  [buf |-> SubSeq(m.buf, 1, m.ind) \o raw
             \o SubSeq(m.buf, end + 1, Len(m.buf)),
   ind |-> end]

pack_req_header(m, h) ==
  [pack([m EXCEPT !.ind = rpc_sz_t],
        << h.xid, h.proc, h.clt_nonce, h.srv_nonce, h.xid_rep >>)
     EXCEPT !.ind = m.ind]

\* A slip, for the mutants: _ind stays behind the short reply header.
pack_reply_header_unsaved(m, h) ==
  pack([m EXCEPT !.ind = rpc_sz_t], << h.xid, h.ret >>)

pack_reply_header(m, h) ==
  [pack([m EXCEPT !.ind = rpc_sz_t], << h.xid, h.ret >>) EXCEPT !.ind = m.ind]

\* take_buf: the buffer up to _ind is what is sent.
take_buf(m) == SubSeq(m.buf, 1, m.ind)

\* operator<< of extent_protocol::attr
attr_cells(a) == << a.type, a.atime, a.mtime, a.ctime, a.size >>

\* operator<< for the types that the RPCs of this program use.
cells(type, v) ==
  CASE type = "int" -> << v >>
    [] type = "ull" -> v
    [] type = "string" -> << Len(v) >> \o v
    [] type = "attr" -> attr_cells(v)

put_value(m, type, v) == pack(m, cells(type, v))

(***************************************************************************)
(* class unmarshall; values holds the variables that were read so far.     *)
(***************************************************************************)

unmarshall(b) == [buf |-> b, ind |-> 0, ok |-> TRUE, values |-> << >>]

okdone(u) == u.ok /\ u.ind = Len(u.buf)

\* n cells, or none and _ok is false when there are fewer.
rawbytes(u, n) ==
  IF u.ind + n > Len(u.buf) THEN << >> ELSE SubSeq(u.buf, u.ind + 1, u.ind + n)

advance(u, n, v) ==
  LET fits == u.ind + n <= Len(u.buf) IN
  [buf |-> u.buf, ind |-> IF fits THEN u.ind + n ELSE u.ind, ok |-> u.ok /\ fits,
   values |-> Append(u.values, v)]

unpack_req_header(u) ==
  [xid |-> u.buf[rpc_sz_t + 1], proc |-> u.buf[rpc_sz_t + 2],
   clt_nonce |-> u.buf[rpc_sz_t + 3], srv_nonce |-> u.buf[rpc_sz_t + 4],
   xid_rep |-> u.buf[rpc_sz_t + 5]]

unpack_reply_header(u) ==
  [xid |-> u.buf[rpc_sz_t + 1], ret |-> u.buf[rpc_sz_t + 2]]

\* Both leave _ind behind the longer header.
behind_header(u) == [u EXCEPT !.ind = RPC_HEADER_SZ]

\* operator>> of extent_protocol::attr
attr_of(raw) ==
  [type |-> raw[1], atime |-> raw[2], mtime |-> raw[3], ctime |-> raw[4],
   size |-> raw[5]]

\* A variable that cannot be read keeps its old value, here NoValue.
NoValue == "none"

\* operator>> for the same types.
get_value(u, type) ==
  LET width == [int |-> 1, ull |-> 2, attr |-> 5]
      n     == rawbytes(u, 1)
  IN IF type = "string"
     THEN IF n = << >>
          THEN advance(u, 1, NoValue)
          ELSE LET v == [u EXCEPT !.ind = @ + 1]
               IN  advance(v, n[1], rawbytes(v, n[1]))
     ELSE LET raw == rawbytes(u, width[type]) IN
          advance(u, width[type],
                  CASE raw = << >> -> NoValue
                    [] raw # << >> /\ type = "int" -> raw[1]
                    [] raw # << >> /\ type = "ull" -> raw
                    [] raw # << >> /\ type = "attr" -> attr_of(raw))

(***************************************************************************)
(* The templates of rpc.h, for any number of arguments                     *)
(***************************************************************************)

\* The buffer after each m << a1, m << a2, ... of rpcc::call.
written(types, args) ==
  LET m[i \in 0 .. Len(types)] ==
        IF i = 0 THEN marshall ELSE put_value(m[i - 1], types[i], args[i])
  IN  m

\* The buffer after each args >> a1, args >> a2, ... of a handler's fn.
parsed(u, types) ==
  LET v[i \in 0 .. Len(types)] ==
        IF i = 0 THEN u ELSE get_value(v[i - 1], types[i])
  IN  v

\* rpcc::call: the arguments go into the buffer in their order, behind the
\* header that call1 adds.
call(h, types, args) ==
  take_buf(pack_req_header(written(types, args)[Len(types)], h))

\* A slip, for the mutants: the arguments are read in the opposite order.
read_args_reversed(pdu, types) ==
  LET u == parsed(behind_header(unmarshall(pdu)), Reverse(types))[Len(types)]
  IN  [u EXCEPT !.values = Reverse(@)]

\* The first half of fn of the handlers that reg makes: args >> a1 ...
read_args(pdu, types) ==
  parsed(behind_header(unmarshall(pdu)), types)[Len(types)]

\* The second half: ret << r, or nothing when the arguments did not fit.
reply(xid, ret, type, r) ==
  take_buf(pack_reply_header(
    IF ret = unmarshal_args_failure THEN marshall ELSE put_value(marshall, type, r),
    [xid |-> xid, ret |-> ret]))

\* rpcc::call_m: a negative intret is returned at once; otherwise r is read,
\* and VERIFY(0) ends the program when it does not fit.
call_m(pdu, type) ==
  LET u      == behind_header(unmarshall(pdu))
      intret == unpack_reply_header(unmarshall(pdu)).ret
      r      == get_value(u, type)
  IN [intret |-> intret,
      r      |-> IF intret < 0 THEN NoValue ELSE r.values[1],
      verify |-> intret < 0 \/ okdone(r)]
=============================================================================
