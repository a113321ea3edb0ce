--------------------------------- MODULE MCOtp ---------------------------------
\* Two numbers asking from one address, with three codes.
EXTENDS Otp, TLC

CONSTANTS p1, p2, i1, c1, c2, c3

TwoPhones == {p1, p2}
ThreeCodes == {c1, c2, c3}
===============================================================================
