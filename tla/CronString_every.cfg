INIT Init
NEXT Next
INVARIANT CronStringAsDescribed
