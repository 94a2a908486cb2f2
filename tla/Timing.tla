-------------------------------- MODULE Timing --------------------------------
(***************************************************************************)
(* The times the layers compute from a baud rate or from milliseconds: how *)
(* long the RTU adapter waits for a full chunk, how long the FreeRTOS wake *)
(* sleeps, how many audits the UART driver grants a draining frame.  Every *)
(* one divides, and errs to the side its caller can afford.                *)
(***************************************************************************)
EXTENDS Integers

CeilDiv(n, d) == (n \div d) + (IF n % d # 0 THEN 1 ELSE 0)

bits_per_character == 12

\* UartAdapter::chunk_time_ms: milliseconds a full chunk takes on the wire.
chunk_time_ms(chunk, baud) ==
    IF baud = 0 THEN 0 ELSE CeilDiv((chunk * bits_per_character) * 1000, baud)

\* FreeRtosWake: milliseconds as ticks, never the portMAX_DELAY that means forever.
wake_ticks_for(milliseconds, rate, max_delay) ==
    LET ticks == (milliseconds * rate) \div 1000
        maximum == max_delay - 1
    IN  IF ticks < maximum THEN ticks ELSE maximum

\* 64 characters of at most 12 bits: what a USART may still hold after its DMA.
worst_pipeline_bit_milliseconds == 768000

\* uart::detail::tx_drain_audit_limit
tx_drain_audit_limit(configured_baud, period, threshold) ==
    LET baud == IF configured_baud # 0 THEN configured_baud ELSE 1
        wire_ms == CeilDiv(worst_pipeline_bit_milliseconds, baud)
    IN  CeilDiv(wire_ms, period) + threshold
=============================================================================
