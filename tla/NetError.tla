------------------------------ MODULE NetError ------------------------------
(***************************************************************************)
(* _net_convert_error of source/net/network_wii.cpp: the results of IOS    *)
(* translated to errno numbers.                                            *)
(***************************************************************************)
EXTENDS Integers

CONSTANTS EAGAIN, EALREADY, EINVAL, EINPROGRESS, EISCONN, ENETDOWN, ETIMEDOUT,
          Beyond  \* the byte behind _net_error_code_map, which index 61 reads

Byte == 0 .. 255

ASSUME ErrnoAssumption ==
  /\ {EAGAIN, EALREADY, EINVAL, EINPROGRESS, EISCONN, ENETDOWN, ETIMEDOUT} \subseteq Byte \ {0}
  /\ EAGAIN # ETIMEDOUT
  /\ Beyond \in Byte

MapSize == 61
NET_UNKNOWN_ERROR_OFFSET == -10000
IPC_ENOENT == -6

\* _net_error_code_map: 0 means "we don't know what this error code means".
ErrorMap == [n \in 0 .. MapSize |->
               CASE n = 6  -> EAGAIN
                 [] n = 7  -> EALREADY
                 [] n = 8  -> EINVAL
                 [] n = 26 -> EINPROGRESS
                 [] n = 30 -> EISCONN
                 [] n = 39 -> ENETDOWN
                 [] n = MapSize -> Beyond
                 [] OTHER  -> 0]

\* The comparison with -sizeof(map) is unsigned and lets -61 pass.
Convert(r) ==
  IF r >= 0 THEN r
  ELSE IF -r > MapSize \/ ErrorMap[-r] = 0 THEN NET_UNKNOWN_ERROR_OFFSET + r
  ELSE -ErrorMap[-r]
=============================================================================
