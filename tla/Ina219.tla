------------------------------- MODULE Ina219 -------------------------------
(***************************************************************************)
(* What ina219.c makes of the registers of the INA219 power monitor: words *)
(* of 16 bits that arrive with their bytes swapped and are read as signed. *)
(***************************************************************************)
EXTENDS Integers

WordSize == 2^16
Word == 0..(WordSize - 1)

\* i2c_smbus_read_word_data() takes the byte that comes first for the low one,
\* and the sensor sends the high one first.
OnTheBus(register) == register \div 256 + 256 * (register % 256)

\* Faulty: the word is used as it comes.
SwapBytesFaulty(word) == word

\* ina_219_device_read_reg(): ((res << 8) | (res >> 8)) & 0xffff.
SwapBytes(word) == (256 * word + word \div 256) % WordSize

Int16(word) == IF word >= WordSize \div 2 THEN word - WordSize ELSE word

ConversionReady(word) == (word \div 2) % 2 = 1
MathOverflow(word) == word % 2 = 1

\* Faulty: the two status bits and the unused one are not shifted out.
BusMillivoltsFaulty(word) == 4 * Int16(word)

\* res_p >>= 3, then steps of 4 mV.
BusMillivolts(word) == 4 * (Int16(word) \div 8)
=============================================================================
