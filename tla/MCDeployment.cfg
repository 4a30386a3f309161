\* Time is counted in retry pauses.  The clock allows for a refresh, a hit,
\* the expiry and a second refresh; one target may be off at the start and
\* one changes, so an entry can fail and come back while it is being asked.
\* MaxRebuild is what both entries' retries take, and the clock passes it and
\* the TTL together, so that an answer could be older than both allow.
SPECIFICATION Spec
SYMMETRY Symmetric
CONSTANTS
    Requesters = {r1, r2}
    NoEntry = NoEntry
    TTL = 1
    MaxRebuild = 2
    MaxAttempts = 2
    MaxClock = 4
    Unsteady = {"public-https-auth", "public-domain-dns", "sqlite-size"}
    MaxDeviations = 1
    MaxChanges = 1
    SettingsSet <- MCSettings
    Endpoints <- MCEndpoints
INVARIANTS
    AnswerNotOld
    VerdictHonest
PROPERTIES
    ImplementsTTLCache
