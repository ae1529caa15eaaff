---- MODULE MCFormatChoice ----
EXTENDS FormatChoice
MCAdapters == DOMAIN Adapter
MCFormats == {"pcm", "wav", "mulaw", "alaw", "mp3", "opus", "aac", "flac"}
MCRates == {NoRate, 8000, 16000, 22050, 24000, 32000, 44100, 48000}
====
