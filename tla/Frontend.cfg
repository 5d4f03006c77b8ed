SPECIFICATION FrontendSpec
CONSTANTS
  Guilds = {g1, g2}
  Commands = {download}
  Definitions = {d1, d2}
  Download = download
  MaxReleases = 3
  MaxEvents = 3
  NoRow = NoRow
  NoGuild = NoGuild
  Interactions = {i1, i2}
INVARIANTS UnchangedPublishedOnce ChangeReachesGuilds AnsweredOnce
