----------------------------- MODULE MCHostClient ----------------------------
(* Instances of HostClient for TLC.                                         *)
EXTENDS HostClient

CONSTANTS phone, tablet

\* Two devices behind one address, of one product; the tablet is old.
TwoDevices == [d \in {phone, tablet} |->
    [serial |-> IF d = phone THEN "net:5555" ELSE "net:5556", type |-> "local",
     host |-> "net", port |-> IF d = phone THEN 5555 ELSE 5556,
     devpath |-> "", product |-> "p", model |-> IF d = phone THEN "m" ELSE "n",
     shell2 |-> d = phone]]

Serial(k, v, p) == [Default EXCEPT !.serial = [kind |-> k, value |-> v, port |-> p]]

\* Nothing, -t 1, a serial, an address without its port, a qualifier.
Targets ==
    {Default, [Default EXCEPT !.id = 1],
     Serial("name", "net:5556", 0), Serial("host", "net", 0), Serial("model", "m", 0)}
==============================================================================
