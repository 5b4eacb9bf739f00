------------------------ MODULE MCPendingTxListener ------------------------
(* Two addresses, one request at a time (MCAddressManager checks their     *)
(* races), one place in the queue and one in the socket: enough for the    *)
(* watch set to change at every point of a subscription, and for the       *)
(* listener to block on a full queue while it does.                        *)
EXTENDS PendingTxListener
=============================================================================
