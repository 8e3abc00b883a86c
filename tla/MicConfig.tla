----------------------------- MODULE MicConfig -----------------------------
(***************************************************************************)
(* The arithmetic of i2s_mic_init(): what it accepts, what the driver      *)
(* allocates for it, and how long one wait slice of a read is.  Sizes are  *)
(* in bytes, times in ms.                                                  *)
(***************************************************************************)
EXTENDS Integers

CONSTANTS
  DmaBytes,   \* most bytes one DMA buffer can have: 4092
  MinSlice    \* I2S_MIC_MIN_SLICE_MS

ASSUME ConfigAssumption == DmaBytes \in Nat \ {0} /\ MinSlice \in Nat \ {0}

BytesPerFrame(c) == c.channels * (c.bits \div 8)
FramesOf(c)      == c.size \div BytesPerFrame(c)

(* The checks that need nothing but the configuration.  The division by    *)
(* the frame size comes after what makes it positive.                      *)
ArgsOK(c) ==
  /\ c.bits \in {16, 32}
  /\ <<c.channels, c.slots>> \in {<<1, "MONO">>, <<2, "STEREO">>}
  /\ c.rate > 0 /\ c.count >= 2
  /\ c.size > 0 /\ c.size % BytesPerFrame(c) = 0

(* total_dma_buf_size of the driver, which shrinks a buffer above the cap  *)
(* to whole frames.                                                        *)
TotalDma(c) ==
  c.count * (IF c.size > DmaBytes THEN DmaBytes - (DmaBytes % BytesPerFrame(c)) ELSE c.size)

\* MUTANT of ActualSize: the driver is taken at its word.
ActualSizeAsAsked(c) == c.size

ActualSize(c) == TotalDma(c) \div c.count

(* One buffer, rounded up to whole ms. *)
PeriodMs(frames, rate) == (frames * 1000 + rate - 1) \div rate

\* MUTANT of SliceMs: no lower bound.
SliceMsNoMin(frames, rate) == 2 * PeriodMs(frames, rate)

(* Two periods, but not less than the minimum. *)
SliceMs(frames, rate) ==
  IF 2 * PeriodMs(frames, rate) < MinSlice THEN MinSlice ELSE 2 * PeriodMs(frames, rate)
=============================================================================
