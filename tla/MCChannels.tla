---------------------------- MODULE MCChannels ----------------------------
EXTENDS Channels

(* A channel of each type, a client with another address that is not        *)
(* watched for silence, and a row that is not in use.                       *)
MCRow(valid, type, addr, timeout) ==
  [valid |-> valid, type |-> type, addr |-> addr, timeout |-> timeout]
MCRows == {MCRow(TRUE, "client", 1, TRUE), MCRow(TRUE, "client", 2, FALSE),
           MCRow(TRUE, "server", 1, TRUE), MCRow(TRUE, "udp", 1, TRUE),
           MCRow(FALSE, "client", 1, TRUE)}
=============================================================================
