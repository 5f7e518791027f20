-------------------------------- MODULE MCBle --------------------------------
(* Two hosts: a laptop with a resolvable random address, and a phone that     *)
(* comes with its public address or with a resolvable random one.             *)
EXTENDS Ble

CONSTANTS phone, laptop, public, random1, random2

MCHosts == {phone, laptop}
MCAddrs == {public, random1, random2}
MCOwner == [a \in MCAddrs |-> IF a = random2 THEN laptop ELSE phone]
MCResolvable == {random1, random2}
==============================================================================
