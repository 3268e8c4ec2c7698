------------------------------ MODULE TunSettings ------------------------------
(* Utils.netmask2prefix: the netmask of the settings, as setupVPN turns it into *)
(* the prefix length it gives the builder.  Nothing but blanks is refused when *)
(* the netmask is stored, so any numbers may stand between the dots.           *)
EXTENDS Integers, Sequences

CONSTANT Entered   \* what the user types: the numbers between three dots

ASSUME EnteredAssumption == Entered \subseteq [1 .. 4 -> Nat]

VARIABLE netmask   \* on disk, the numbers between the dots

MaxInt == 2147483647

\* 2^k for k \in 0 .. 8, as a table: the provers know no exponents.
Power(k) == <<1, 2, 4, 8, 16, 32, 64, 128, 256>>[k + 1]

\* The least k such that n <= 2^k, for 1 <= n <= 256.
CeilLog2(n) == CHOOSE k \in 0 .. 8 : n <= Power(k) /\ (k = 0 \/ n > Power(k - 1))

\* The sum of two ints as an int.
Saturated(len, bits) == IF len > MaxInt - bits THEN MaxInt ELSE len + bits

\* Slip: the logarithm of the octet's last value instead of the first past it.
AddOctetFrom255(len, n) ==
  CASE n < 255 -> Saturated(len, 8 - CeilLog2(255 - n))
    [] n = 255 -> MaxInt
    [] OTHER   -> 0

\* len += 8 - log2(256 - n), cut to an int: at 256 the logarithm is minus
\* infinity and the sum saturates, past it there is none and the sum is 0.
AddOctet(len, n) ==
  CASE n < 256 -> Saturated(len, 8 - CeilLog2(256 - n))
    [] n = 256 -> MaxInt
    [] OTHER   -> 0

\* The loop over the four numbers.
Netmask2prefix(mask) ==
  AddOctet(AddOctet(AddOctet(AddOctet(0, mask[1]), mask[2]), mask[3]), mask[4])

\* What VpnService.Builder.addAddress takes; otherwise it throws, in the middle
\* of a start, and the app ends.
Accepted(prefix) == prefix \in 0 .. 32

-------------------------------------------------------------------------------

\* getnetMask of an empty file.
DefaultNetmask == <<255, 255, 255, 252>>
NetmaskInit == netmask = DefaultNetmask

\* The dialog's OK, for any text that is not blank.
SaveNetmask == netmask' \in Entered

NetmaskSpec == NetmaskInit /\ [][SaveNetmask]_netmask

-------------------------------------------------------------------------------
\* Reference: the netmask with p leading ones, octet by octet.
Bits(p, i) == IF p <= 8 * (i - 1) THEN 0 ELSE IF p >= 8 * i THEN 8 ELSE p - 8 * (i - 1)
NetmaskOf == [p \in 0 .. 32 |-> [i \in 1 .. 4 |-> 256 - Power(8 - Bits(p, i))]]

\* What is stored gives its own prefix if it is a netmask, although each octet
\* goes through a logarithm and is cut off; four octets that are no netmask
\* still give a prefix the builder takes, and one of 256 does not, unless a
\* later one past 256 turns it back into a small number that passes.
PrefixMeansNetmask ==
  LET prefix == Netmask2prefix(netmask)
  IN  /\ \A p \in 0 .. 32 : netmask = NetmaskOf[p] => prefix = p
      /\ ~Accepted(prefix) <=>
           \E i \in 1 .. 4 : netmask[i] = 256 /\ \A j \in i + 1 .. 4 : netmask[j] <= 256
===============================================================================
