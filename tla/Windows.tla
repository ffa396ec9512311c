------------------------------ MODULE Windows -------------------------------
(***************************************************************************)
(* The windows that FDCodecIterFold (zzping-lib/src/framedataq.rs) slides  *)
(* over n frames, by their ends. Aggregate checks that the iterator folds  *)
(* exactly these; FdqView builds the caches of the GUI with them.          *)
(***************************************************************************)
EXTENDS Integers

\* The number of calls that find frames.
Pulls(step, n) == (n + step - 1) \div step

\* Where the window of call k begins: it slides once it is full, and by a step
\* per call after the last frame was taken.
Low(window, step, n, k) ==
  LET full == IF k <= Pulls(step, n) THEN k * step ELSE Pulls(step, n) * step
      begin == IF full > window THEN full - window + 1 ELSE 1 IN
  IF k <= Pulls(step, n) THEN begin ELSE begin + step * (k - Pulls(step, n))

High(step, n, k) == IF k * step < n THEN k * step ELSE n

\* The number of windows, those that run out at the end included.
Count(window, step, n) ==
  IF n = 0 THEN 0
  ELSE Pulls(step, n) + (n - Low(window, step, n, Pulls(step, n))) \div step
=============================================================================
